---- MODULE Spec2Model ----
(***************************************************************************)
(* Trailer resolution and verification engine of rekonime's scraper tools: *)
(* tools/scraper/add_trailers.py (two-pass bulk repair) and                *)
(* tools/scraper/mal_scraper.py (class MALScraper, per-item scraping).     *)
(***************************************************************************)
EXTENDS Integers, Sequences, FiniteSets, TLC

(***************************************************************************)
(* Characters of a watch page.  The scan of extract_player_response tells  *)
(* apart only braces, the double quote and the backslash; every other      *)
(* character takes the same branch.  The marker text                      *)
(* "ytInitialPlayerResponse = " is one token, MK.                          *)
(***************************************************************************)
LB == "lbrace"
RB == "rbrace"
QT == "quote"
BS == "bslash"
OT == "other"
MK == "marker"

Alphabet == {LB, RB, QT, BS, OT}

\* Longest page body explored by the extractor's specification.
MaxHtmlLen == 7

Min(S) == CHOOSE m \in S : \A n \in S : m <= n

\* html.find(marker): the position of the first marker, 0 for Python's -1.
FindMarker(html) ==
    LET ms == {i \in 1..Len(html) : html[i] = MK}
    IN  IF ms = {} THEN 0 ELSE Min(ms)

\* Mutant: a backslash inside a string is an ordinary character.
InStringStepNoEscape(ch, escape) ==
    IF ch = QT THEN [in_string |-> FALSE, escape |-> FALSE]
    ELSE [in_string |-> TRUE, escape |-> FALSE]

\* The in_string branch of the scan loop: the new (in_string, escape).
InStringStep(ch, escape) ==
    IF escape THEN [in_string |-> TRUE, escape |-> FALSE]
    ELSE IF ch = BS THEN [in_string |-> TRUE, escape |-> TRUE]
    ELSE IF ch = QT THEN [in_string |-> FALSE, escape |-> FALSE]
    ELSE [in_string |-> TRUE, escape |-> FALSE]

\* The loop "for idx in range(start, len(html))": the position of the brace
\* at which brace_count returns to zero, 0 when the loop ends with end = None.
RECURSIVE ScanFrom(_, _, _, _, _)
ScanFrom(html, idx, brace_count, in_string, escape) ==
    IF idx > Len(html) THEN 0
    ELSE LET ch == html[idx] IN
         IF in_string
         THEN LET s == InStringStep(ch, escape)
              IN  ScanFrom(html, idx + 1, brace_count, s.in_string, s.escape)
         ELSE IF ch = QT THEN ScanFrom(html, idx + 1, brace_count, TRUE, escape)
         ELSE IF ch = LB THEN ScanFrom(html, idx + 1, brace_count + 1, FALSE, escape)
         ELSE IF ch = RB
              THEN IF brace_count - 1 = 0 THEN idx
                   ELSE ScanFrom(html, idx + 1, brace_count - 1, FALSE, escape)
         ELSE ScanFrom(html, idx + 1, brace_count, FALSE, escape)

\* No extraction: the marker is absent or the scan never balances.
NoSpan == [start |-> 0, end |-> 0]

\* The part of extract_player_response before json.loads: the positions
\* (first character after the marker, terminating brace) of html[start:end].
ExtractSpan(html) ==
    LET m == FindMarker(html) IN
    IF m = 0 THEN NoSpan
    ELSE LET e == ScanFrom(html, m + 1, 0, FALSE, FALSE)
         IN  IF e = 0 THEN NoSpan ELSE [start |-> m + 1, end |-> e]

(***************************************************************************)
(* Reference reading of a page, independent of the scan: strings are found *)
(* quote to quote (a quote closes a string when an even number of          *)
(* backslashes precedes it inside the string), braces are counted outside  *)
(* strings.                                                                *)
(***************************************************************************)
RECURSIVE BackslashRun(_, _, _)
BackslashRun(h, i, lo) ==
    IF i - 1 >= lo /\ h[i - 1] = BS THEN 1 + BackslashRun(h, i - 1, lo) ELSE 0

ClosingQuote(h, q) ==
    LET cs == {c \in (q + 1)..Len(h) :
                  h[c] = QT /\ BackslashRun(h, c, q + 1) % 2 = 0}
    IN  IF cs = {} THEN Len(h) + 1 ELSE Min(cs)

RECURSIVE OutsideStrings(_, _)
OutsideStrings(h, p) ==
    IF p > Len(h) THEN {}
    ELSE LET qs == {q \in p..Len(h) : h[q] = QT} IN
         IF qs = {} THEN p..Len(h)
         ELSE (p..(Min(qs) - 1)) \cup OutsideStrings(h, ClosingQuote(h, Min(qs)) + 1)

BraceDepth(h, O, a, b) ==
    Cardinality({j \in (a..b) \cap O : h[j] = LB})
      - Cardinality({j \in (a..b) \cap O : h[j] = RB})

\* The closing brace that matches the first opening brace after `start`, 0 if none.
MatchingBrace(h, start) ==
    LET O     == OutsideStrings(h, start)
        opens == {j \in O : h[j] = LB}
    IN  IF opens = {} THEN 0
        ELSE LET f  == Min(opens)
                 cs == {i \in O : i > f /\ h[i] = RB /\ BraceDepth(h, O, f, i) = 0}
             IN  IF cs = {} THEN 0 ELSE Min(cs)

\* A closing brace outside a string precedes the first opening brace.
StrayClose(h, start) ==
    LET O     == OutsideStrings(h, start)
        opens == {j \in O : h[j] = LB}
    IN  \E i \in O : h[i] = RB /\ (opens = {} \/ i < Min(opens))

\* The first closing brace outside a string at which the depth counted from
\* `start` is zero, 0 if none.
FirstZeroDepthClose(h, start) ==
    LET O  == OutsideStrings(h, start)
        cs == {i \in O : h[i] = RB /\ BraceDepth(h, O, start, i) = 0}
    IN  IF cs = {} THEN 0 ELSE Min(cs)

(***************************************************************************)
(* Strings, video ids and trailer dicts.                                   *)
(***************************************************************************)
\* Python's None where the code expects a string.
None == "None"

\* Python truthiness of an optional string.
Truthy(s) == s # None /\ s # ""

ABC == "abc12345678"
XYZ == "xyz98765432"
JKN == "jkn00000001"
VideoIds == {ABC, XYZ, JKN}

Titles == {"Title", ""}

WatchUrl(video_id) == "https://www.youtube.com/watch?v=" \o video_id
EmbedUrl(video_id) == "https://www.youtube.com/embed/" \o video_id
ThumbnailUrl(video_id) == "https://i.ytimg.com/vi/" \o video_id \o "/hqdefault.jpg"

\* Python's None where the code expects a trailer dict.
NoTrailer ==
    [site |-> None, id |-> None, url |-> None, embedUrl |-> None,
     thumbnail |-> None, source |-> None]

\* Mutant: the search result is tagged with the blocked trailer's provider.
BuildYoutubeTrailerWrongSource(video_id, source) ==
    [site |-> "youtube", id |-> video_id, url |-> WatchUrl(video_id),
     embedUrl |-> EmbedUrl(video_id), thumbnail |-> ThumbnailUrl(video_id),
     source |-> "anilist"]

BuildYoutubeTrailer(video_id, source) ==
    [site |-> "youtube", id |-> video_id, url |-> WatchUrl(video_id),
     embedUrl |-> EmbedUrl(video_id), thumbnail |-> ThumbnailUrl(video_id),
     source |-> source]

\* urlparse and parse_qs on the URLs the providers of this model send: the
\* host, what the path starts with, the path's first segment after it, and
\* the v parameter of the query.
VimeoUrl == "https://vimeo.com/1"
JikanEmbedUrl(video_id) == EmbedUrl(video_id) \o "?enablejsapi=1"
ShortUrl(video_id) == "https://youtu.be/" \o video_id

UrlParse(url) ==
    IF \E v \in VideoIds : url = WatchUrl(v)
    THEN [host |-> "www.youtube.com", path |-> "/watch", seg |-> None,
          v |-> CHOOSE v \in VideoIds : url = WatchUrl(v)]
    ELSE IF \E v \in VideoIds : url \in {EmbedUrl(v), JikanEmbedUrl(v)}
    THEN [host |-> "www.youtube.com", path |-> "/embed/",
          seg |-> CHOOSE v \in VideoIds : url \in {EmbedUrl(v), JikanEmbedUrl(v)},
          v |-> None]
    ELSE IF \E v \in VideoIds : url = ShortUrl(v)
    THEN [host |-> "youtu.be", path |-> "/",
          seg |-> CHOOSE v \in VideoIds : url = ShortUrl(v), v |-> None]
    ELSE [host |-> "vimeo.com", path |-> "/", seg |-> "1", v |-> None]

ExtractYoutubeId(url) ==
    IF ~Truthy(url) THEN None
    ELSE LET parsed == UrlParse(url) IN
         IF parsed.host = "youtu.be"
         THEN (IF Truthy(parsed.seg) THEN parsed.seg ELSE None)
         ELSE IF parsed.host \in {"www.youtube.com", "www.youtube-nocookie.com"}
         THEN IF parsed.path = "/embed/"
              THEN (IF Truthy(parsed.seg) THEN parsed.seg ELSE None)
              ELSE IF parsed.path = "/watch" THEN parsed.v
              ELSE None
         ELSE None

\* str.lower on the site names the providers of this model send.
Lower(s) == IF s \in {"YouTube", "YOUTUBE"} THEN "youtube" ELSE s

\* A provider's raw trailer: isNone is a JSON null in place of the object.
AnilistNull == [isNone |-> TRUE, site |-> None, id |-> None, thumbnail |-> None]

RawAnilistTrailers ==
    { AnilistNull,
      [isNone |-> FALSE, site |-> "youtube", id |-> ABC, thumbnail |-> None],
      [isNone |-> FALSE, site |-> "YouTube", id |-> XYZ,
       thumbnail |-> "https://i.ytimg.com/vi/xyz98765432/maxresdefault.jpg"],
      [isNone |-> FALSE, site |-> "dailymotion", id |-> "x8abcde", thumbnail |-> None] }

JikanNull == [isNone |-> TRUE, youtube_id |-> None, url |-> None, embed_url |-> None]

RawJikanTrailers ==
    { JikanNull,
      [isNone |-> FALSE, youtube_id |-> None, url |-> None, embed_url |-> None],
      [isNone |-> FALSE, youtube_id |-> JKN, url |-> WatchUrl(JKN),
       embed_url |-> JikanEmbedUrl(JKN)],
      [isNone |-> FALSE, youtube_id |-> None, url |-> None,
       embed_url |-> JikanEmbedUrl(ABC)],
      [isNone |-> FALSE, youtube_id |-> None, url |-> VimeoUrl, embed_url |-> None] }

\* Mutant: the site name is compared as it is spelled.
NormalizeAnilistTrailerCaseSensitive(trailer) ==
    IF trailer.isNone THEN NoTrailer
    ELSE LET site     == IF Truthy(trailer.site) THEN trailer.site ELSE ""
             video_id == trailer.id
         IN  IF site # "youtube" \/ ~Truthy(video_id) THEN NoTrailer
             ELSE [site |-> "youtube", id |-> video_id, url |-> WatchUrl(video_id),
                   embedUrl |-> EmbedUrl(video_id),
                   thumbnail |-> IF Truthy(trailer.thumbnail) THEN trailer.thumbnail
                                 ELSE ThumbnailUrl(video_id),
                   source |-> "anilist"]

NormalizeAnilistTrailer(trailer) ==
    IF trailer.isNone THEN NoTrailer
    ELSE LET site     == Lower(IF Truthy(trailer.site) THEN trailer.site ELSE "")
             video_id == trailer.id
         IN  IF site # "youtube" \/ ~Truthy(video_id) THEN NoTrailer
             ELSE [site |-> "youtube", id |-> video_id, url |-> WatchUrl(video_id),
                   embedUrl |-> EmbedUrl(video_id),
                   thumbnail |-> IF Truthy(trailer.thumbnail) THEN trailer.thumbnail
                                 ELSE ThumbnailUrl(video_id),
                   source |-> "anilist"]

\* Mutant: the Jikan trailer is not tagged with its provider.
NormalizeJikanTrailerUntagged(trailer) ==
    IF trailer.isNone THEN NoTrailer
    ELSE LET url       == trailer.url
             embed_url == trailer.embed_url
             fromEmbed == ExtractYoutubeId(embed_url)
             video_id  == IF Truthy(trailer.youtube_id) THEN trailer.youtube_id
                          ELSE IF Truthy(fromEmbed) THEN fromEmbed
                          ELSE ExtractYoutubeId(url)
         IN  IF ~Truthy(video_id) /\ ~Truthy(url) /\ ~Truthy(embed_url) THEN NoTrailer
             ELSE [site |-> "youtube", id |-> video_id,
                   url |-> IF Truthy(url) THEN url
                           ELSE IF Truthy(video_id) THEN WatchUrl(video_id) ELSE "",
                   embedUrl |-> IF Truthy(embed_url) THEN embed_url
                                ELSE IF Truthy(video_id) THEN EmbedUrl(video_id) ELSE "",
                   thumbnail |-> IF Truthy(video_id) THEN ThumbnailUrl(video_id) ELSE "",
                   source |-> None]

NormalizeJikanTrailer(trailer) ==
    IF trailer.isNone THEN NoTrailer
    ELSE LET url       == trailer.url
             embed_url == trailer.embed_url
             fromEmbed == ExtractYoutubeId(embed_url)
             video_id  == IF Truthy(trailer.youtube_id) THEN trailer.youtube_id
                          ELSE IF Truthy(fromEmbed) THEN fromEmbed
                          ELSE ExtractYoutubeId(url)
         IN  IF ~Truthy(video_id) /\ ~Truthy(url) /\ ~Truthy(embed_url) THEN NoTrailer
             ELSE [site |-> "youtube", id |-> video_id,
                   url |-> IF Truthy(url) THEN url
                           ELSE IF Truthy(video_id) THEN WatchUrl(video_id) ELSE "",
                   embedUrl |-> IF Truthy(embed_url) THEN embed_url
                                ELSE IF Truthy(video_id) THEN EmbedUrl(video_id) ELSE "",
                   thumbnail |-> IF Truthy(video_id) THEN ThumbnailUrl(video_id) ELSE "",
                   source |-> "jikan"]

\* "trailer.get('id') or extract_youtube_id(trailer.get('url') or '')".
TrailerVideoId(trailer) ==
    IF Truthy(trailer.id) THEN trailer.id
    ELSE ExtractYoutubeId(IF Truthy(trailer.url) THEN trailer.url ELSE "")

(***************************************************************************)
(* The watch page and the document embedded in it.                         *)
(***************************************************************************)
\* What json.loads returns, as far as is_embeddable reads it.  none: Python's
\* None (no document).  other_keys: the object has keys besides
\* playabilityStatus.  ps: playabilityStatus is absent, an object ("dict") or
\* any other JSON value ("notdict").  status, pie: the object's status and
\* playableInEmbed ("true", "false"), None when the key is absent.
NoData == [none |-> TRUE, other_keys |-> FALSE, ps |-> "absent", status |-> None, pie |-> None]

Statuses == {"OK", "LOGIN_REQUIRED", "UNPLAYABLE", None}
PlayableInEmbed == {"true", "false", None}

StatusDocs ==
    {[none |-> FALSE, other_keys |-> TRUE, ps |-> "dict", status |-> st, pie |-> p] :
        st \in Statuses, p \in PlayableInEmbed}

EmptyObject == [none |-> FALSE, other_keys |-> FALSE, ps |-> "absent", status |-> None, pie |-> None]
NoStatusObject == [none |-> FALSE, other_keys |-> TRUE, ps |-> "absent", status |-> None, pie |-> None]
NullStatusObject == [none |-> FALSE, other_keys |-> TRUE, ps |-> "notdict", status |-> None, pie |-> None]

Docs == StatusDocs \cup {EmptyObject, NoStatusObject, NullStatusObject}

\* A page: its text, the part of the text that is a JSON document (empty when
\* no part is) and what that document holds.
SimpleHtml == <<OT, MK, LB, OT, RB, OT>>
SimpleJson == <<LB, OT, RB>>
\* An object with a string holding an escaped quote and a brace, a nested
\* object, and markup with braces after it.
TrickyHtml == <<MK, LB, QT, BS, QT, RB, QT, LB, RB, RB, OT, LB, RB>>
TrickyJson == <<LB, QT, BS, QT, RB, QT, LB, RB, RB>>

EmptyPage == [html |-> <<>>, json_text |-> <<>>, doc |-> NoData]
NoMarkerPage == [html |-> <<OT, LB, RB>>, json_text |-> <<>>, doc |-> NoData]
UnbalancedPage == [html |-> <<MK, LB, LB, RB>>, json_text |-> <<>>, doc |-> NoData]
UnparsablePage == [html |-> <<MK, LB, OT, RB>>, json_text |-> <<>>, doc |-> NoData]

Pages ==
    {[html |-> SimpleHtml, json_text |-> SimpleJson, doc |-> d] : d \in Docs}
    \cup {[html |-> TrickyHtml, json_text |-> TrickyJson, doc |-> d] :
            d \in {x \in StatusDocs : x.status = "OK" /\ x.pie # "true"}}
    \cup {NoMarkerPage, UnbalancedPage, UnparsablePage}

\* json.loads inside its try/except: the page's document when the text is the
\* page's JSON document, None (JSONDecodeError) for any other text.
JsonLoads(text, page) ==
    IF page.json_text # <<>> /\ text = page.json_text THEN page.doc ELSE NoData

ExtractPlayerResponse(page) ==
    LET sp == ExtractSpan(page.html) IN
    IF sp = NoSpan THEN NoData
    ELSE JsonLoads(SubSeq(page.html, sp.start, sp.end), page)

(***************************************************************************)
(* HTTP exchanges.  A response is an exception of requests (timeout,       *)
(* connection failure) or a status with a body.                            *)
(***************************************************************************)
NoResponse == [kind |-> "none", status |-> 0, page |-> EmptyPage, matches |-> <<>>]

Exceptions ==
    {[kind |-> k, status |-> 0, page |-> EmptyPage, matches |-> <<>>] :
        k \in {"timeout", "connection_error"}}

ErrorStatuses ==
    {[kind |-> "http", status |-> c, page |-> EmptyPage, matches |-> <<>>] :
        c \in {404, 429}}

WatchResponses ==
    Exceptions \cup ErrorStatuses
    \cup {[kind |-> "http", status |-> 200, page |-> pg, matches |-> <<>>] : pg \in Pages}

IsException(r) == r.kind \in {"timeout", "connection_error"}

\* requests' Response.ok.
ResponseOk(r) == r.status < 400

\* "response = get(...); if response.status_code == 429: sleep; response =
\* get(...)": the response the code goes on with, whether a get raised, and
\* the number of requests sent.  r2 answers the retry.
GetWithRetry(r1, r2) ==
    IF IsException(r1) THEN [raised |-> TRUE, response |-> r1, requests |-> 1]
    ELSE IF r1.status = 429
    THEN [raised |-> IsException(r2), response |-> r2, requests |-> 2]
    ELSE [raised |-> FALSE, response |-> r1, requests |-> 1]

AddTrailers == "add_trailers"
MalScraper == "mal_scraper"
Sites == {AddTrailers, MalScraper}

\* Whether the fetch is wrapped in "try: ... except requests.RequestException".
FetchCatches(s) == s = MalScraper

FetchPlayerResponse(s, r1, r2) ==
    LET x == GetWithRetry(r1, r2) IN
    IF x.raised
    THEN [raised |-> ~FetchCatches(s), data |-> NoData, requests |-> x.requests]
    ELSE IF ~ResponseOk(x.response)
    THEN [raised |-> FALSE, data |-> NoData, requests |-> x.requests]
    ELSE [raised |-> FALSE, data |-> ExtractPlayerResponse(x.response.page),
          requests |-> x.requests]

(***************************************************************************)
(* The verifier: is_embeddable / MALScraper._is_youtube_embeddable.        *)
(***************************************************************************)
\* Mutant: a cached not-embeddable verdict is verified again.
CacheHitOnlyWhenTrue(cache, video_id) ==
    video_id \in DOMAIN cache /\ cache[video_id]

\* "if video_id in cache".
CacheHit(cache, video_id) == video_id \in DOMAIN cache

\* "cache[video_id] = value".
CacheStore(cache, video_id, value) ==
    [x \in DOMAIN cache \cup {video_id} |-> IF x = video_id THEN value ELSE cache[x]]

\* Mutant: a missing playableInEmbed counts as a denial.
EmbeddableStrict(status, playable_in_embed) ==
    status = "OK" /\ playable_in_embed = "true"

\* 'status == "OK" and playable_in_embed is not False'.
Embeddable(status, playable_in_embed) ==
    status = "OK" /\ playable_in_embed # "false"

\* "if not data": None or an empty dict.
DataFalsy(data) == data.none \/ (~data.other_keys /\ data.ps = "absent")

BoolStr(b) == IF b THEN "true" ELSE "false"

\* Mutant: a failed fetch returns False without recording it.
VerdictOfDataNoStoreOnFailure(cache, video_id, data) ==
    IF DataFalsy(data) THEN [ret |-> "false", cache |-> cache]
    ELSE IF data.ps = "notdict" THEN [ret |-> "raised", cache |-> cache]
    ELSE LET e == Embeddable(data.status, data.pie)
         IN  [ret |-> BoolStr(e), cache |-> CacheStore(cache, video_id, e)]

\* Mutant: a failed fetch is recorded as embeddable.
VerdictOfDataFailOpen(cache, video_id, data) ==
    IF DataFalsy(data) THEN [ret |-> "true", cache |-> CacheStore(cache, video_id, TRUE)]
    ELSE IF data.ps = "notdict" THEN [ret |-> "raised", cache |-> cache]
    ELSE LET e == Embeddable(data.status, data.pie)
         IN  [ret |-> BoolStr(e), cache |-> CacheStore(cache, video_id, e)]

\* is_embeddable after the fetch: what it returns ("raised": the
\* AttributeError of calling .get on a playabilityStatus that is no object)
\* and the cache it leaves.
VerdictOfData(cache, video_id, data) ==
    IF DataFalsy(data)
    THEN [ret |-> "false", cache |-> CacheStore(cache, video_id, FALSE)]
    ELSE IF data.ps = "notdict" THEN [ret |-> "raised", cache |-> cache]
    ELSE LET e == Embeddable(data.status, data.pie)
         IN  [ret |-> BoolStr(e), cache |-> CacheStore(cache, video_id, e)]

\* One call of the verifier on site s: ret is "true", "false" or "raised",
\* fetches the number of calls of fetch_player_response (0 or 1), requests
\* the number of HTTP requests sent.
IsEmbeddable(s, cache, video_id, r1, r2) ==
    IF CacheHit(cache, video_id)
    THEN [ret |-> BoolStr(cache[video_id]), cache |-> cache, fetches |-> 0,
          requests |-> 0, data |-> NoData]
    ELSE LET f == FetchPlayerResponse(s, r1, r2) IN
         IF f.raised
         THEN [ret |-> "raised", cache |-> cache, fetches |-> 1,
               requests |-> f.requests, data |-> NoData]
         ELSE LET v == VerdictOfData(cache, video_id, f.data)
              IN  [ret |-> v.ret, cache |-> v.cache, fetches |-> 1,
                   requests |-> f.requests, data |-> f.data]

(***************************************************************************)
(* The search: search_youtube_video_ids / _search_youtube_video_ids.       *)
(***************************************************************************)
SEARCH_RESULTS_LIMIT == 12

\* What re.findall finds in the search pages of this model: the ids in page
\* order, repetitions included.
MatchLists ==
    { <<>>, <<ABC, XYZ>>, <<XYZ, XYZ, JKN>>, <<JKN, ABC>> }

SearchResponses ==
    Exceptions \cup ErrorStatuses
    \cup {[kind |-> "http", status |-> 200, page |-> EmptyPage, matches |-> m] :
            m \in MatchLists}

\* Mutant: the loop breaks one id too late.
RECURSIVE DedupLimitOffByOne(_, _, _, _)
DedupLimitOffByOne(matches, i, results, limit) ==
    IF i > Len(matches) THEN results
    ELSE IF \E j \in 1..Len(results) : results[j] = matches[i]
    THEN DedupLimitOffByOne(matches, i + 1, results, limit)
    ELSE IF Len(results) + 1 > limit THEN Append(results, matches[i])
    ELSE DedupLimitOffByOne(matches, i + 1, Append(results, matches[i]), limit)

\* The loop over re.findall's matches: first-seen order, no duplicates, at
\* most `limit` ids.
RECURSIVE DedupLimit(_, _, _, _)
DedupLimit(matches, i, results, limit) ==
    IF i > Len(matches) THEN results
    ELSE IF \E j \in 1..Len(results) : results[j] = matches[i]
    THEN DedupLimit(matches, i + 1, results, limit)
    ELSE IF Len(results) + 1 >= limit THEN Append(results, matches[i])
    ELSE DedupLimit(matches, i + 1, Append(results, matches[i]), limit)

\* Whether the site keeps youtube_search_cache.
HasSearchCache(s) == s = MalScraper

\* Whether the search is wrapped in "try: ... except requests.RequestException".
SearchCatches(s) == s = MalScraper

\* Mutant: a failed search is stored as an empty list.
SearchYoutubeVideoIdsStoringFailures(s, scache, query, r1, r2) ==
    LET store(results) ==
            IF HasSearchCache(s)
            THEN [q \in DOMAIN scache \cup {query} |->
                    IF q = query THEN results ELSE scache[q]]
            ELSE scache
    IN  IF HasSearchCache(s) /\ query \in DOMAIN scache
        THEN [raised |-> FALSE, results |-> scache[query], scache |-> scache, requests |-> 0]
        ELSE LET x == GetWithRetry(r1, r2) IN
             IF x.raised
             THEN [raised |-> ~SearchCatches(s), results |-> <<>>, scache |-> store(<<>>),
                   requests |-> x.requests]
             ELSE IF ~ResponseOk(x.response)
             THEN [raised |-> FALSE, results |-> <<>>, scache |-> store(<<>>),
                   requests |-> x.requests]
             ELSE LET results == DedupLimit(x.response.matches, 1, <<>>, SEARCH_RESULTS_LIMIT)
                  IN  [raised |-> FALSE, results |-> results, scache |-> store(results),
                       requests |-> x.requests]

\* One call of the search on site s: the ids, whether it raised, the search
\* cache it leaves and the number of HTTP requests sent.
SearchYoutubeVideoIds(s, scache, query, r1, r2) ==
    IF HasSearchCache(s) /\ query \in DOMAIN scache
    THEN [raised |-> FALSE, results |-> scache[query], scache |-> scache, requests |-> 0]
    ELSE LET x == GetWithRetry(r1, r2) IN
         IF x.raised
         THEN [raised |-> ~SearchCatches(s), results |-> <<>>, scache |-> scache,
               requests |-> x.requests]
         ELSE IF ~ResponseOk(x.response)
         THEN [raised |-> FALSE, results |-> <<>>, scache |-> scache,
               requests |-> x.requests]
         ELSE LET results == DedupLimit(x.response.matches, 1, <<>>, SEARCH_RESULTS_LIMIT)
              IN  [raised |-> FALSE, results |-> results,
                   scache |-> IF HasSearchCache(s)
                              THEN [q \in DOMAIN scache \cup {query} |->
                                      IF q = query THEN results ELSE scache[q]]
                              ELSE scache,
                   requests |-> x.requests]

\* Mutant: the queries in another order.
QueriesReordered(title) ==
    << title \o " trailer", title \o " official trailer", title \o " PV" >>

\* The ordered query strings of find_embeddable_trailer.
Queries(title) ==
    << title \o " official trailer", title \o " trailer", title \o " PV" >>

\* Mutant: blocked ids are not skipped.
FirstUnblockedIgnoringBlocked(candidates, from, blocked_ids) ==
    IF from <= Len(candidates) THEN from ELSE 0

\* "for video_id in candidates: if video_id in blocked_ids: continue": the
\* index of the next candidate, from index `from` on, that is handed to the
\* verifier; 0 when the loop ends.
FirstUnblocked(candidates, from, blocked_ids) ==
    LET is == {i \in from..Len(candidates) : candidates[i] \notin blocked_ids}
    IN  IF is = {} THEN 0 ELSE Min(is)

(***************************************************************************)
(* State.                                                                  *)
(***************************************************************************)
\* Number of catalog entries of a run.
NumEntries == 1

VARIABLES
    xpc,        \* extractor run: "ready" before the call, "done" after it
    xhtml,      \* extractor run: the page body given to the extractor
    xspan,      \* extractor run: the span the extractor returned
    site,       \* which program runs: add_trailers.main or MALScraper.scrape_batch
    entry_point,\* "main": the program's main loop; "find": the search
                \* fallback called on its own; "verify": the verifier called
                \* on its own; "extract": the extractor alone
    refresh,    \* add_trailers: the --refresh flag
    entries,    \* anime_list: per entry its title, metadata trailer, scrape error
    pc,         \* the position of the run
    cur,        \* the index of the entry being processed
    missing,    \* add_trailers: missing_after_anilist, as a set of indexes
    embed_cache,    \* embed_cache / self.youtube_embed_cache
    search_cache,   \* self.youtube_search_cache (MALScraper only)
    trailer,        \* add_trailers: the local `trailer` of the verify pass
    anilist_trailer,\* MALScraper: the local anilist_trailer of scrape_anime
    jikan_trailer,  \* MALScraper: the local jikan_trailer of scrape_anime
    ck,         \* MALScraper: index in the loop of _select_embeddable_trailer
    fr,         \* find_embeddable_trailer's frame: title, blocked_ids, the
                \* query index, the current candidates, the candidate index
    fetches,    \* history: calls of fetch_player_response per video id
    last,       \* history: the last call of the verifier
    lastresp,   \* history: the responses the last call of the verifier got,
                \* kept when the verifier is called on its own
    res,        \* history: the current call of the search fallback
    searches,   \* history: fetches of a search page per entry
    qfetches,   \* history: fetches of the search page per query string
    provided,   \* history: what each provider returned for each entry
    rl_pc,      \* rate limiter run: "call" between the calls, "idle" otherwise
    rl_elapsed, \* rate limiter run: per class, time.time() minus the class's
                \* last-call timestamp, in tenths of a second, counted up to
                \* the class's delay
    rl_since,   \* history: per class, the time since the last HTTP request
                \* of the class, counted up to the class's delay
    rl_last,    \* history: the last step of the rate limiter run
    eq_pc,      \* comparison run: "ready", "done", or "idle"
    world,      \* comparison run: the title and what every upstream answers
    eq_at,      \* comparison run: the entry's trailer after add_trailers.main
    eq_mal,     \* comparison run: the entry's trailer after scrape_anime
    fn_pc,      \* run of one function: where it is ("ready", ..., "done"), or "idle"
    fn_in,      \* run of one function: its arguments
    fn_out      \* run of one function: what it returned

xvars == <<xpc, xhtml, xspan>>

sysvars ==
    <<site, entry_point, refresh, entries, pc, cur, missing, embed_cache,
      search_cache, trailer, anilist_trailer, jikan_trailer, ck, fr, fetches,
      last, lastresp, res, searches, qfetches, provided>>

rlvars == <<rl_pc, rl_elapsed, rl_since, rl_last>>

eqvars == <<eq_pc, world, eq_at, eq_mal>>

fnvars == <<fn_pc, fn_in, fn_out>>

sidevars == <<rlvars, eqvars, fnvars>>

vars == <<xvars, sysvars, sidevars>>

config == <<site, entry_point, refresh>>

\* Every query string the search fallback can build.
AllQueries == {Queries(t)[i] : t \in Titles, i \in 1..3}

NoFrame == [title |-> "", blocked_ids |-> {}, qi |-> 0, candidates |-> <<>>, ci |-> 0]

\* res: entry: the entry the fallback runs for; blocked: the blocked_ids it
\* was called with; queries: the query strings searched so far; qres: the
\* candidate list of each; checked: the ids handed to the verifier so far;
\* ret: "idle" (not called), "running", "None" or the id returned.
NoRes ==
    [entry |-> 0, blocked |-> {}, queries |-> <<>>, qres |-> <<>>,
     checked |-> <<>>, ret |-> "idle"]

\* last: the id verified, whether the cache held it before the call, what the
\* call returned ("true", "false", "raised") and the calls of
\* fetch_player_response it made.
NoLast == [op |-> "none", vid |-> None, known |-> FALSE, ret |-> None, fetches |-> 0]

EmptyCache == [x \in {} |-> TRUE]
EmptySearchCache == [x \in {} |-> <<>>]

\* provided: per entry what provider A (AniList) and provider B (Jikan) said
\* about its trailer ("unasked", "null", "data", "error"), and whether the
\* entry had a trailer before the run.
NotAsked == [a |-> "unasked", b |-> "unasked", prior |-> FALSE]

\* The state of everything but the extractor run when no program runs.
SysIdle ==
    /\ site = AddTrailers
    /\ entry_point = "extract"
    /\ refresh = FALSE
    /\ entries = <<>>
    /\ pc = "idle"
    /\ cur = 0
    /\ missing = {}
    /\ embed_cache = EmptyCache
    /\ search_cache = EmptySearchCache
    /\ trailer = NoTrailer
    /\ anilist_trailer = NoTrailer
    /\ jikan_trailer = NoTrailer
    /\ ck = 0
    /\ fr = NoFrame
    /\ fetches = [v \in VideoIds |-> 0]
    /\ last = NoLast
    /\ lastresp = <<NoResponse, NoResponse>>
    /\ res = NoRes
    /\ searches = [i \in 1..NumEntries |-> 0]
    /\ qfetches = [q \in AllQueries |-> 0]
    /\ provided = [i \in 1..NumEntries |-> NotAsked]

XIdle ==
    /\ xpc = "idle"
    /\ xhtml = <<>>
    /\ xspan = NoSpan

\* world: the title of one entry and what every upstream answers about it:
\* a and b are the trailers in the answers of provider A (AniList) and
\* provider B (Jikan), verdict is what the verifier says of each video id,
\* and found[i] is the result list of the search for the entry's i-th query.
NoWorld ==
    [title |-> "", a |-> AnilistNull, b |-> JikanNull,
     verdict |-> [v \in VideoIds |-> FALSE], found |-> << <<>>, <<>>, <<>> >>]

FnIdle ==
    /\ fn_pc = "idle"
    /\ fn_in = <<>>
    /\ fn_out = <<>>

EqIdle ==
    /\ eq_pc = "idle"
    /\ world = NoWorld
    /\ eq_at = NoTrailer
    /\ eq_mal = NoTrailer

(***************************************************************************)
(* The rate limiter of MALScraper.  Time is counted in tenths of a second. *)
(* The scraper keeps one last-call timestamp per class of request; what    *)
(* _rate_limit does with it depends only on time.time() minus the          *)
(* timestamp, which is what the model keeps (rl_elapsed), counted up to    *)
(* the class's delay: beyond it the limiter does not sleep at all.  The    *)
(* timestamps start at 0, so before the first call every elapsed time is   *)
(* beyond its delay.                                                       *)
(***************************************************************************)
Classes == {"mal", "jikan", "anilist", "youtube"}

REQUEST_DELAY == 20
JIKAN_DELAY == 10
ANILIST_DELAY == 7
YOUTUBE_DELAY == 5

Delay(api) ==
    IF api = "jikan" THEN JIKAN_DELAY
    ELSE IF api = "anilist" THEN ANILIST_DELAY
    ELSE IF api = "youtube" THEN YOUTUBE_DELAY
    ELSE REQUEST_DELAY

\* The sleep after a 429 answer, before the one retry: time.sleep(5) for
\* Jikan and YouTube, time.sleep(60) for AniList.  _fetch_page (class mal)
\* does not retry.
JIKAN_RETRY_SLEEP == 50
ANILIST_RETRY_SLEEP == 600
YOUTUBE_RETRY_SLEEP == 50

Retries(api) == api \in {"jikan", "anilist", "youtube"}

\* Mutant: every upstream gets the short sleep.
RetrySleepShort(api) == YOUTUBE_RETRY_SLEEP

RetrySleep(api) ==
    IF api = "jikan" THEN JIKAN_RETRY_SLEEP
    ELSE IF api = "anilist" THEN ANILIST_RETRY_SLEEP
    ELSE YOUTUBE_RETRY_SLEEP

\* d tenths of a second pass: every elapsed time grows by d.
Pass(t, d) == [c \in Classes |-> Min({t[c] + d, Delay(c)})]

\* time.sleep(delay - elapsed) when elapsed < delay.
SleepFor(elapsed, delay) == IF elapsed < delay THEN delay - elapsed ELSE 0

\* _rate_limit with the YouTube branch keeping its time in the timestamp of
\* the default class.
RateLimitSharedTimestamp(t, api) ==
    IF api = "jikan"
    THEN LET d == SleepFor(t.jikan, JIKAN_DELAY)
         IN  [slept |-> d, elapsed |-> [Pass(t, d) EXCEPT !.jikan = 0]]
    ELSE IF api = "anilist"
    THEN LET d == SleepFor(t.anilist, ANILIST_DELAY)
         IN  [slept |-> d, elapsed |-> [Pass(t, d) EXCEPT !.anilist = 0]]
    ELSE IF api = "youtube"
    THEN LET d == SleepFor(t.mal, YOUTUBE_DELAY)
         IN  [slept |-> d, elapsed |-> [Pass(t, d) EXCEPT !.mal = 0]]
    ELSE LET d == SleepFor(t.mal, REQUEST_DELAY)
         IN  [slept |-> d, elapsed |-> [Pass(t, d) EXCEPT !.mal = 0]]

\* _rate_limit(api): the time slept and the elapsed times on return.
RateLimit(t, api) ==
    IF api = "jikan"
    THEN LET d == SleepFor(t.jikan, JIKAN_DELAY)
         IN  [slept |-> d, elapsed |-> [Pass(t, d) EXCEPT !.jikan = 0]]
    ELSE IF api = "anilist"
    THEN LET d == SleepFor(t.anilist, ANILIST_DELAY)
         IN  [slept |-> d, elapsed |-> [Pass(t, d) EXCEPT !.anilist = 0]]
    ELSE IF api = "youtube"
    THEN LET d == SleepFor(t.youtube, YOUTUBE_DELAY)
         IN  [slept |-> d, elapsed |-> [Pass(t, d) EXCEPT !.youtube = 0]]
    ELSE LET d == SleepFor(t.mal, REQUEST_DELAY)
         IN  [slept |-> d, elapsed |-> [Pass(t, d) EXCEPT !.mal = 0]]

LongAgo == [c \in Classes |-> Delay(c)]

\* rl_last: the last step of the run: op is "limit" (a _rate_limit call
\* returned; slept is the time it slept), "request" (the HTTP requests of
\* the call were sent; gap is the time since the previous request of the
\* class when the first of them went out), "tick" or "none".
NoStep == [op |-> "none", api |-> "mal", slept |-> 0, gap |-> 0, retried |-> FALSE]

RLIdle ==
    /\ rl_pc = "idle"
    /\ rl_elapsed = LongAgo
    /\ rl_since = LongAgo
    /\ rl_last = NoStep

InitRateLimiter ==
    /\ XIdle
    /\ SysIdle
    /\ EqIdle
    /\ FnIdle
    /\ rl_pc = "call"
    /\ rl_elapsed = LongAgo
    /\ rl_since = LongAgo
    /\ rl_last = NoStep

\* Time passes between two calls of the scraper.
Tick ==
    /\ rl_pc = "call"
    /\ \E c \in Classes : rl_elapsed[c] < Delay(c)
    /\ rl_elapsed' = Pass(rl_elapsed, 1)
    /\ rl_since' = Pass(rl_since, 1)
    /\ rl_last' = [NoStep EXCEPT !.op = "tick"]
    /\ UNCHANGED <<rl_pc, xvars, sysvars, eqvars, fnvars>>

\* self._rate_limit(api), the first statement of every fetching method.
CallRateLimit ==
    /\ rl_pc = "call"
    /\ \E api \in Classes :
         LET x == RateLimit(rl_elapsed, api)
         IN  /\ rl_elapsed' = x.elapsed
             /\ rl_since' = Pass(rl_since, x.slept)
             /\ rl_last' = [NoStep EXCEPT !.op = "limit", !.api = api, !.slept = x.slept]
    /\ rl_pc' = "limited"
    /\ UNCHANGED <<xvars, sysvars, eqvars, fnvars>>

\* The rest of the fetching method: the request, and after a 429 answer the
\* sleep and the one retry, which is sent without another _rate_limit.
SendRequest ==
    /\ rl_pc = "limited"
    /\ \E retry \in BOOLEAN :
         LET api == rl_last.api
             d == IF retry THEN RetrySleep(api) ELSE 0
         IN  /\ retry => Retries(api)
             /\ rl_elapsed' = Pass(rl_elapsed, d)
             /\ rl_since' = [Pass(rl_since, d) EXCEPT ![api] = 0]
             /\ rl_last' = [NoStep EXCEPT !.op = "request", !.api = api,
                                          !.gap = rl_since[api], !.retried = retry]
    /\ rl_pc' = "call"
    /\ UNCHANGED <<xvars, sysvars, eqvars, fnvars>>

\* The state of the rate limiter and of the comparison when neither runs.
SideIdle == RLIdle /\ EqIdle /\ FnIdle

NextRateLimiter == Tick \/ CallRateLimit \/ SendRequest

SpecRateLimiter == InitRateLimiter /\ [][NextRateLimiter]_vars

(***************************************************************************)
(* The extractor alone.                                                    *)
(***************************************************************************)
\* What precedes the scanned text: the marker, markup (with a brace and a
\* quote of its own) and then the marker, or markup without any marker.
Prefixes == {<<MK>>, <<LB, QT, MK>>, <<LB, QT, RB, OT>>}

\* Bodies of the extractor run: a prefix, then any text over the alphabet,
\* at most MaxHtmlLen characters and the marker in all.
InitExtract ==
    /\ xpc = "ready"
    /\ \E p \in Prefixes :
         \E k \in 0..(MaxHtmlLen + 1 - Len(p)) :
            \E t \in [1..k -> Alphabet] : xhtml = p \o t
    /\ xspan = NoSpan
    /\ SysIdle
    /\ SideIdle

RunExtract ==
    /\ xpc = "ready"
    /\ xpc' = "done"
    /\ xspan' = ExtractSpan(xhtml)
    /\ UNCHANGED <<xhtml, sysvars, sidevars>>

NextExtract == RunExtract

SpecExtract == InitExtract /\ [][NextExtract]_vars

(***************************************************************************)
(* The programs.  Each action is one call that talks to an upstream (its   *)
(* responses are the action's inputs) together with the code that runs     *)
(* until the next such call.                                               *)
(***************************************************************************)
\* has_trailer(entry).
HasTrailer(entry) ==
    Truthy(entry.trailer.id) \/ Truthy(entry.trailer.url) \/ Truthy(entry.trailer.embedUrl)

\* "needs": the entries the acquisition passes of add_trailers work on.
Needs(es, rf) == {i \in 1..Len(es) : rf \/ ~HasTrailer(es[i])}

\* The verify pass skips an entry without trailer or without video id.
Verifiable(entry) ==
    entry.trailer # NoTrailer /\ Truthy(TrailerVideoId(entry.trailer))

FirstIn(S) == IF S = {} THEN 0 ELSE Min(S)

NextVerifiable(es, from) == FirstIn({i \in from..Len(es) : Verifiable(es[i])})

\* Pairs of responses to a request and to its retry; there is a second
\* response only after a first one with status 429.
ResponsePairs(R) ==
    {<<r1, NoResponse>> : r1 \in {r \in R : r.status # 429}}
    \cup {<<r1, r2>> : r1 \in {r \in R : r.status = 429}, r2 \in R}

InitialTrailers(s) ==
    IF s = AddTrailers THEN {NoTrailer, BuildYoutubeTrailer(ABC, "anilist")}
    ELSE {NoTrailer}

InitMain ==
    /\ XIdle
    /\ SideIdle
    /\ site \in Sites
    /\ entry_point = "main"
    /\ refresh \in (IF site = AddTrailers THEN BOOLEAN ELSE {FALSE})
    /\ entries \in [1..NumEntries ->
                      [title : Titles, trailer : InitialTrailers(site), scrape_error : {""}]]
    /\ pc = IF site = AddTrailers THEN "at_anilist" ELSE "mal_meta"
    /\ cur = 1
    /\ missing = {}
    /\ embed_cache = EmptyCache
    /\ search_cache = EmptySearchCache
    /\ trailer = NoTrailer
    /\ anilist_trailer = NoTrailer
    /\ jikan_trailer = NoTrailer
    /\ ck = 0
    /\ fr = NoFrame
    /\ fetches = [v \in VideoIds |-> 0]
    /\ last = NoLast
    /\ lastresp = <<NoResponse, NoResponse>>
    /\ res = NoRes
    /\ searches = [i \in 1..NumEntries |-> 0]
    /\ qfetches = [q \in AllQueries |-> 0]
    /\ provided = [i \in 1..NumEntries |->
                      [NotAsked EXCEPT !.prior = HasTrailer(entries[i])]]

\* The call of the verifier inside an action: r is IsEmbeddable's result.
RecordVerifier(video_id, r1, r2, r) ==
    /\ embed_cache' = r.cache
    /\ fetches' = [fetches EXCEPT ![video_id] = @ + r.fetches]
    /\ last' = [op |-> "verify", vid |-> video_id,
                known |-> video_id \in DOMAIN embed_cache,
                ret |-> r.ret, fetches |-> r.fetches]
    /\ lastresp' = IF entry_point = "verify"
                   THEN << IF r.requests >= 1 THEN r1 ELSE NoResponse,
                           IF r.requests >= 2 THEN r2 ELSE NoResponse >>
                   ELSE lastresp

\* The run ends with an uncaught exception.
Crash ==
    /\ pc' = "crashed"
    /\ UNCHANGED <<cur, entries>>

\* add_trailers: go on with the verify pass at the first entry from `from`
\* on that has a trailer with a video id.
GotoVerify(es, from) ==
    LET n == NextVerifiable(es, from) IN
    IF n = 0 THEN pc' = "done" /\ cur' = Len(es) + 1
    ELSE pc' = "at_verify" /\ cur' = n

\* MALScraper.scrape_batch: the next item.
GotoNextItem ==
    IF cur < Len(entries) THEN pc' = "mal_meta" /\ cur' = cur + 1
    ELSE pc' = "done" /\ cur' = cur + 1

\* The search fallback returns `result` (NoTrailer for None) to its caller:
\* add_trailers.main lines 442-450, scrape_anime lines 657-660.
Return(result) ==
    /\ entries' = [entries EXCEPT ![cur].trailer = result]
    /\ IF entry_point = "find" THEN pc' = "returned" /\ cur' = cur
       ELSE IF site = AddTrailers THEN GotoVerify(entries, cur + 1)
       ELSE pc' = "mal_slug" /\ cur' = cur

\* Whether _find_embeddable_trailer starts with "if not title: return None".
HasTitleGuard(s) == s = MalScraper

\* The loop of find_embeddable_trailer from candidate index `from` of the
\* current query on, up to the next call of the verifier or of the search.
Continue(frame, from, history) ==
    LET c == FirstUnblocked(frame.candidates, from, frame.blocked_ids) IN
    IF c # 0
    THEN /\ fr' = [frame EXCEPT !.ci = c]
         /\ res' = history
         /\ pc' = "cand"
         /\ UNCHANGED <<cur, entries>>
    ELSE IF frame.qi < Len(Queries(frame.title))
    THEN /\ fr' = [frame EXCEPT !.qi = @ + 1, !.candidates = <<>>, !.ci = 0]
         /\ res' = history
         /\ pc' = "search"
         /\ UNCHANGED <<cur, entries>>
    ELSE /\ fr' = [frame EXCEPT !.ci = 0]
         /\ res' = [history EXCEPT !.ret = None]
         /\ Return(NoTrailer)

\* The call find_embeddable_trailer(title, blocked_ids) for entry cur.
StartFind(title, blocked_ids) ==
    LET history == [NoRes EXCEPT !.entry = cur, !.blocked = blocked_ids, !.ret = "running"] IN
    IF HasTitleGuard(site) /\ ~Truthy(title)
    THEN /\ fr' = [NoFrame EXCEPT !.title = title, !.blocked_ids = blocked_ids]
         /\ res' = [history EXCEPT !.ret = None]
         /\ Return(NoTrailer)
    ELSE /\ fr' = [title |-> title, blocked_ids |-> blocked_ids, qi |-> 1,
                   candidates |-> <<>>, ci |-> 0]
         /\ res' = history
         /\ pc' = "search"
         /\ UNCHANGED <<cur, entries>>

\* "candidates = search_youtube_video_ids(query)" and the loop up to the
\* first candidate that is not blocked.
Search ==
    /\ pc = "search"
    /\ \E rr \in ResponsePairs(SearchResponses) :
         LET query == Queries(fr.title)[fr.qi]
             x     == SearchYoutubeVideoIds(site, search_cache, query, rr[1], rr[2])
             hist  == [res EXCEPT !.queries = Append(@, query),
                                  !.qres = Append(@, x.results)]
         IN  /\ search_cache' = x.scache
             /\ searches' = [searches EXCEPT ![cur] = @ + (IF x.requests > 0 THEN 1 ELSE 0)]
             /\ qfetches' = [qfetches EXCEPT ![query] = @ + (IF x.requests > 0 THEN 1 ELSE 0)]
             /\ IF x.raised
                THEN /\ Crash
                     /\ res' = [res EXCEPT !.queries = Append(@, query)]
                     /\ UNCHANGED fr
                ELSE Continue([fr EXCEPT !.candidates = x.results], 1, hist)
    /\ UNCHANGED <<xvars, sidevars, config, missing, embed_cache, trailer, anilist_trailer,
                   jikan_trailer, ck, fetches, last, lastresp, provided>>

\* Mutant: no verdict ends the loops.
AcceptedNever(ret) == FALSE

\* "if is_embeddable(...)": the candidate is accepted.
Accepted(ret) == ret = "true"

\* "if is_embeddable(session, video_id, embed_cache): return
\* build_youtube_trailer(video_id, 'youtube-search')" for the candidate at
\* fr.ci, and the loop up to the next call.
CheckCandidate ==
    /\ pc = "cand"
    /\ \E rr \in ResponsePairs(WatchResponses) :
         LET video_id == fr.candidates[fr.ci]
             r        == IsEmbeddable(site, embed_cache, video_id, rr[1], rr[2])
             hist     == [res EXCEPT !.checked = Append(@, video_id)]
         IN  /\ RecordVerifier(video_id, rr[1], rr[2], r)
             /\ IF r.ret = "raised"
                THEN Crash /\ res' = hist /\ UNCHANGED fr
                ELSE IF Accepted(r.ret)
                THEN /\ res' = [hist EXCEPT !.ret = video_id]
                     /\ UNCHANGED fr
                     /\ Return(BuildYoutubeTrailer(video_id, "youtube-search"))
                ELSE Continue(fr, fr.ci + 1, hist)
    /\ UNCHANGED <<xvars, sidevars, qfetches, config, missing, search_cache, trailer, anilist_trailer,
                   jikan_trailer, ck, searches, provided>>

(***************************************************************************)
(* add_trailers.main: acquire from AniList (one batch), then from Jikan    *)
(* per missing entry, then verify and repair every entry of the list.      *)
(***************************************************************************)
\* What a provider's answer says about the trailer: "null" (no trailer
\* data), "data" or "error" (the call failed).
AnilistSays(raw) == IF raw.isNone THEN "null" ELSE "data"
JikanSays(raw) ==
    IF raw.isNone \/ (raw.youtube_id = None /\ raw.url = None /\ raw.embed_url = None)
    THEN "null" ELSE "data"

\* fetch_anilist_trailers and the loop over `needs` (lines 366-382).  An
\* error status or a transport error raises out of main.
AT_FetchAnilist ==
    /\ pc = "at_anilist"
    /\ LET needs == Needs(entries, refresh) IN
       \E ok \in (IF needs = {} THEN {TRUE} ELSE BOOLEAN) :
       \E raw \in [needs -> RawAnilistTrailers] :
         IF ~ok
         THEN /\ raw = [i \in needs |-> AnilistNull]
              /\ Crash
              /\ UNCHANGED <<missing, provided>>
         ELSE LET norm == [i \in needs |-> NormalizeAnilistTrailer(raw[i])]
                  es   == [i \in 1..Len(entries) |->
                             IF i \in needs /\ norm[i] # NoTrailer
                             THEN [entries[i] EXCEPT !.trailer = norm[i]]
                             ELSE entries[i]]
                  miss == {i \in needs : norm[i] = NoTrailer}
              IN  /\ entries' = es
                  /\ missing' = miss
                  /\ provided' = [i \in 1..Len(entries) |->
                                    IF i \in needs
                                    THEN [provided[i] EXCEPT !.a = AnilistSays(raw[i])]
                                    ELSE provided[i]]
                  /\ IF miss = {} THEN GotoVerify(es, 1)
                     ELSE pc' = "at_jikan" /\ cur' = Min(miss)
    /\ UNCHANGED <<xvars, sidevars, qfetches, config, embed_cache, search_cache, trailer, anilist_trailer,
                   jikan_trailer, ck, fr, fetches, last, lastresp, res, searches>>

\* One iteration of the Jikan loop (lines 390-408): a request error is caught
\* and the entry skipped.
AT_FetchJikan ==
    /\ pc = "at_jikan"
    /\ \E ok \in BOOLEAN :
       \E raw \in RawJikanTrailers :
         LET norm == NormalizeJikanTrailer(raw)
             es   == IF ok /\ norm # NoTrailer
                     THEN [entries EXCEPT ![cur].trailer = norm]
                     ELSE entries
             next == FirstIn({i \in missing : i > cur})
         IN  /\ ~ok => raw = JikanNull
             /\ entries' = es
             /\ provided' = [provided EXCEPT ![cur].b = IF ok THEN JikanSays(raw) ELSE "error"]
             /\ IF next = 0 THEN GotoVerify(es, 1)
                ELSE pc' = "at_jikan" /\ cur' = next
    /\ UNCHANGED <<xvars, sidevars, qfetches, config, missing, embed_cache, search_cache, trailer,
                   anilist_trailer, jikan_trailer, ck, fr, fetches, last, lastresp,
                   res, searches>>

\* One iteration of the verify pass (lines 418-440) for an entry that has a
\* trailer with a video id, up to the next call.
AT_Verify ==
    /\ pc = "at_verify"
    /\ \E rr \in ResponsePairs(WatchResponses) :
         LET video_id == TrailerVideoId(entries[cur].trailer)
             r        == IsEmbeddable(site, embed_cache, video_id, rr[1], rr[2])
         IN  /\ RecordVerifier(video_id, rr[1], rr[2], r)
             /\ trailer' = entries[cur].trailer
             /\ IF r.ret = "raised"
                THEN Crash /\ res' = NoRes /\ fr' = NoFrame
                ELSE IF Accepted(r.ret)
                THEN /\ entries' = [entries EXCEPT ![cur].trailer.id = video_id]
                     /\ GotoVerify(entries, cur + 1)
                     /\ res' = NoRes
                     /\ fr' = NoFrame
                ELSE StartFind(entries[cur].title, {video_id})
    /\ UNCHANGED <<xvars, sidevars, qfetches, config, missing, search_cache, anilist_trailer,
                   jikan_trailer, ck, searches, provided>>

(***************************************************************************)
(* MALScraper.scrape_batch / scrape_anime with fetch_metadata.             *)
(***************************************************************************)
\* _select_embeddable_trailer's loop over (anilist_trailer, jikan_trailer)
\* from index `from` on, up to the next call.
Select(at, jt, from, blocked_ids) ==
    LET cands == <<at, jt>>
        k == FirstIn({i \in from..2 :
                        cands[i] # NoTrailer /\ Truthy(TrailerVideoId(cands[i]))})
    IN  IF k # 0
        THEN /\ pc' = "mal_verify"
             /\ ck' = k
             /\ fr' = [NoFrame EXCEPT !.blocked_ids = blocked_ids]
             /\ res' = NoRes
             /\ UNCHANGED <<cur, entries>>
        ELSE /\ ck' = 0
             /\ StartFind(entries[cur].title, blocked_ids)

\* get_anime_metadata (Jikan) and the type check of scrape_anime.
MAL_Metadata ==
    /\ pc = "mal_meta"
    /\ \E ok \in BOOLEAN, type \in {"TV", "Movie"}, raw \in RawJikanTrailers :
         LET jt == NormalizeJikanTrailer(raw) IN
         IF ~ok
         THEN /\ type = "TV" /\ raw = JikanNull
              /\ entries' = [entries EXCEPT ![cur].scrape_error =
                                "Could not fetch metadata from Jikan"]
              /\ provided' = [provided EXCEPT ![cur].b = "error"]
              /\ jikan_trailer' = NoTrailer
              /\ pc' = "mal_slug" /\ cur' = cur
         ELSE /\ provided' = [provided EXCEPT ![cur].b = JikanSays(raw)]
              /\ IF type # "TV"
                 THEN /\ entries' = [entries EXCEPT ![cur].trailer = jt,
                                        ![cur].scrape_error = "Non-TV type skipped"]
                      /\ jikan_trailer' = NoTrailer
                      /\ GotoNextItem
                 ELSE /\ jikan_trailer' = jt
                      /\ pc' = "mal_anilist_id"
                      /\ UNCHANGED <<cur, entries>>
    /\ anilist_trailer' = NoTrailer
    /\ ck' = 0
    /\ fr' = NoFrame
    /\ res' = NoRes
    /\ UNCHANGED <<xvars, sidevars, qfetches, config, missing, embed_cache, search_cache, trailer,
                   fetches, last, lastresp, searches>>

\* get_anilist_id: an id, or None on any failure.
MAL_AnilistId ==
    /\ pc = "mal_anilist_id"
    /\ \E found \in BOOLEAN :
         IF found
         THEN /\ pc' = "mal_anilist_trailer"
              /\ UNCHANGED <<cur, entries, ck, fr, res>>
         ELSE Select(NoTrailer, jikan_trailer, 1, {})
    /\ UNCHANGED <<xvars, sidevars, qfetches, config, missing, embed_cache, search_cache, trailer,
                   anilist_trailer, jikan_trailer, fetches, last, lastresp,
                   searches, provided>>

\* get_anilist_trailer, then the start of _select_embeddable_trailer.
MAL_AnilistTrailer ==
    /\ pc = "mal_anilist_trailer"
    /\ \E ok \in BOOLEAN, raw \in RawAnilistTrailers :
         LET at == IF ok THEN NormalizeAnilistTrailer(raw) ELSE NoTrailer IN
         /\ ~ok => raw = AnilistNull
         /\ anilist_trailer' = at
         /\ provided' = [provided EXCEPT ![cur].a = IF ok THEN AnilistSays(raw) ELSE "error"]
         /\ Select(at, jikan_trailer, 1, {})
    /\ UNCHANGED <<xvars, sidevars, qfetches, config, missing, embed_cache, search_cache, trailer,
                   jikan_trailer, fetches, last, lastresp, searches>>

\* One iteration of _select_embeddable_trailer's loop (lines 475-485) for a
\* candidate with a video id, up to the next call.
MAL_VerifyCandidate ==
    /\ pc = "mal_verify"
    /\ \E rr \in ResponsePairs(WatchResponses) :
         LET candidate == IF ck = 1 THEN anilist_trailer ELSE jikan_trailer
             source    == IF ck = 1 THEN "anilist" ELSE "jikan"
             video_id  == TrailerVideoId(candidate)
             r         == IsEmbeddable(site, embed_cache, video_id, rr[1], rr[2])
         IN  /\ RecordVerifier(video_id, rr[1], rr[2], r)
             /\ IF r.ret = "raised"
                THEN Crash /\ UNCHANGED <<ck, fr, res>>
                ELSE IF Accepted(r.ret)
                THEN /\ entries' =
                          [entries EXCEPT ![cur].trailer =
                              [candidate EXCEPT !.id = video_id,
                                  !.source = IF Truthy(candidate.source)
                                             THEN candidate.source ELSE source]]
                     /\ pc' = "mal_slug" /\ cur' = cur
                     /\ UNCHANGED <<ck, fr, res>>
                ELSE Select(anilist_trailer, jikan_trailer, ck + 1,
                            fr.blocked_ids \cup {video_id})
    /\ UNCHANGED <<xvars, sidevars, qfetches, config, missing, search_cache, trailer, anilist_trailer,
                   jikan_trailer, searches, provided>>

\* get_anime_slug and scrape_episode_scores, then the next item of the batch.
MAL_Episodes ==
    /\ pc = "mal_slug"
    /\ GotoNextItem
    /\ UNCHANGED <<xvars, sidevars, qfetches, config, entries, missing, embed_cache, search_cache,
                   trailer, anilist_trailer, jikan_trailer, ck, fr, fetches,
                   last, lastresp, res, searches, provided>>

NextMain ==
    \/ AT_FetchAnilist
    \/ AT_FetchJikan
    \/ AT_Verify
    \/ MAL_Metadata
    \/ MAL_AnilistId
    \/ MAL_AnilistTrailer
    \/ MAL_VerifyCandidate
    \/ MAL_Episodes
    \/ Search
    \/ CheckCandidate

Spec == InitMain /\ [][NextMain]_vars

(***************************************************************************)
(* The search on one answered page, with more ids on the page than the     *)
(* limit keeps.  The ids of these pages are numbers.                       *)
(***************************************************************************)
MaxDistinct == 14

\* 1, 2, ..., n and n, n-1, ..., 1.
Ascending(n) == [i \in 1..n |-> i]
Descending(n) == [i \in 1..n |-> n + 1 - i]

\* The sequences of at most two ids among the first three.
ShortRuns ==
    {<<>>} \cup {<<a>> : a \in 1..3} \cup {<<a, b>> : a \in 1..3, b \in 1..3}

InitDedup ==
    /\ XIdle
    /\ SysIdle
    /\ RLIdle
    /\ EqIdle
    /\ fn_pc = "ready"
    /\ \E s \in Sites, a \in 0..MaxDistinct, b \in 0..MaxDistinct, r \in ShortRuns :
         fn_in = [site |-> s, query |-> "Title trailer",
                  matches |-> Ascending(a) \o r \o Descending(b)]
    /\ fn_out = <<>>

\* The search for the query, answered 200 with the page, on an empty cache.
RunSearchOnPage ==
    /\ fn_pc = "ready"
    /\ fn_pc' = "done"
    /\ LET page == [kind |-> "http", status |-> 200, page |-> EmptyPage,
                    matches |-> fn_in.matches]
           x == SearchYoutubeVideoIds(fn_in.site, EmptySearchCache, fn_in.query,
                                      page, NoResponse)
       IN  fn_out' = [results |-> x.results, scache |-> x.scache]
    /\ UNCHANGED <<fn_in, xvars, sysvars, rlvars, eqvars>>

NextDedup == RunSearchOnPage

SpecDedup == InitDedup /\ [][NextDedup]_vars

(***************************************************************************)
(* The normalizers on their own, over more provider answers than the runs  *)
(* above draw from, and on trailers that are already canonical.            *)
(***************************************************************************)
CustomThumbnail(video_id) == "https://i.ytimg.com/vi/" \o video_id \o "/maxresdefault.jpg"

\* AniList trailer objects: any of the site names, with and without id and
\* thumbnail.
AnilistSites == {"youtube", "YouTube", "dailymotion", None}

AllRawAnilist ==
    {[isNone |-> FALSE, site |-> name, id |-> id, thumbnail |-> t] :
        name \in AnilistSites, id \in VideoIds \cup {None},
        t \in {None, CustomThumbnail(XYZ)}}

\* Jikan trailer objects about one video: each field absent or in one of the
\* forms the provider sends.
AllRawJikan ==
    UNION {{[isNone |-> FALSE, youtube_id |-> id, url |-> url, embed_url |-> e] :
              id \in {v, None},
              url \in {None, VimeoUrl, WatchUrl(v), ShortUrl(v)},
              e \in {None, EmbedUrl(v), JikanEmbedUrl(v)}} : v \in VideoIds}

Sources == {"anilist", "jikan", "youtube-search"}

\* The trailers the normalizers and build_youtube_trailer produce.
CanonicalCandidates ==
    ({NormalizeAnilistTrailer(raw) : raw \in AllRawAnilist}
     \cup {NormalizeJikanTrailer(raw) : raw \in AllRawJikan}
     \cup {BuildYoutubeTrailer(v, source) : v \in VideoIds, source \in Sources})
    \ {NoTrailer}

\* What normalize_anilist_trailer reads of a canonical trailer dict:
\* trailer.get("site"), trailer.get("id"), trailer.get("thumbnail").
ReadAsAnilist(c) ==
    [isNone |-> FALSE, site |-> c.site, id |-> c.id, thumbnail |-> c.thumbnail]

\* What normalize_jikan_trailer reads of a canonical trailer dict:
\* trailer.get("youtube_id") and trailer.get("embed_url") are None, the dict
\* has no such keys; trailer.get("url") is its url.
ReadAsJikan(c) ==
    [isNone |-> FALSE, youtube_id |-> None, url |-> c.url, embed_url |-> None]

InitNormalize ==
    /\ XIdle
    /\ SysIdle
    /\ RLIdle
    /\ EqIdle
    /\ fn_pc = "ready"
    /\ \E c \in CanonicalCandidates, by \in {"anilist", "jikan"} :
         fn_in = [c |-> c, by |-> by]
    /\ fn_out = <<>>

\* A provider normalizer applied to the canonical trailer.
Renormalize ==
    /\ fn_pc = "ready"
    /\ fn_pc' = "done"
    /\ fn_out' = IF fn_in.by = "anilist"
                 THEN NormalizeAnilistTrailer(ReadAsAnilist(fn_in.c))
                 ELSE NormalizeJikanTrailer(ReadAsJikan(fn_in.c))
    /\ UNCHANGED <<fn_in, xvars, sysvars, rlvars, eqvars>>

NextNormalize == Renormalize

SpecNormalize == InitNormalize /\ [][NextNormalize]_vars

(***************************************************************************)
(* The two orchestrations on one entry, as functions of what the upstreams *)
(* answer: the entry has a MAL id and no trailer yet, every request is     *)
(* answered, Jikan says the entry is a TV series and AniList knows it.     *)
(***************************************************************************)
\* The result lists a search can yield.
FoundLists == {DedupLimit(m, 1, <<>>, SEARCH_RESULTS_LIMIT) : m \in MatchLists}

\* The loops of find_embeddable_trailer / _find_embeddable_trailer from
\* candidate ci of query qi on.
RECURSIVE FindFrom(_, _, _, _)
FindFrom(w, blocked_ids, qi, ci) ==
    IF qi > Len(Queries(w.title)) THEN NoTrailer
    ELSE LET candidates == w.found[qi]
             k == FirstUnblocked(candidates, ci, blocked_ids)
         IN  IF k = 0 THEN FindFrom(w, blocked_ids, qi + 1, 1)
             ELSE IF w.verdict[candidates[k]]
             THEN BuildYoutubeTrailer(candidates[k], "youtube-search")
             ELSE FindFrom(w, blocked_ids, qi, k + 1)

FindEmbeddableTrailer(s, w, blocked_ids) ==
    IF HasTitleGuard(s) /\ ~Truthy(w.title) THEN NoTrailer
    ELSE FindFrom(w, blocked_ids, 1, 1)

\* add_trailers.main on the entry: the AniList pass, the Jikan pass for an
\* entry still without trailer, then the verify pass.
AddTrailersMain(w) ==
    LET at == NormalizeAnilistTrailer(w.a)
        jt == NormalizeJikanTrailer(w.b)
        acquired == IF at # NoTrailer THEN at ELSE jt
        video_id == TrailerVideoId(acquired)
    IN  IF acquired = NoTrailer \/ ~Truthy(video_id) THEN acquired
        ELSE IF w.verdict[video_id] THEN acquired
        ELSE FindEmbeddableTrailer(AddTrailers, w, {video_id})

\* MALScraper.scrape_anime on the entry: _select_embeddable_trailer with
\* the trailers of AniList and of the Jikan metadata.
SelectEmbeddableTrailer(w) ==
    LET at == NormalizeAnilistTrailer(w.a)
        jt == NormalizeJikanTrailer(w.b)
        Usable(t) == t # NoTrailer /\ Truthy(TrailerVideoId(t))
        blocked1 == IF Usable(at) THEN {TrailerVideoId(at)} ELSE {}
        blocked2 == blocked1 \cup (IF Usable(jt) THEN {TrailerVideoId(jt)} ELSE {})
    IN  IF Usable(at) /\ w.verdict[TrailerVideoId(at)] THEN at
        ELSE IF Usable(jt) /\ w.verdict[TrailerVideoId(jt)] THEN jt
        ELSE FindEmbeddableTrailer(MalScraper, w, blocked2)

InitEquiv ==
    /\ XIdle
    /\ SysIdle
    /\ RLIdle
    /\ FnIdle
    /\ eq_pc = "ready"
    /\ \E title \in Titles, a \in RawAnilistTrailers, b \in RawJikanTrailers :
         \E verdict \in [VideoIds -> BOOLEAN], found \in [1..3 -> FoundLists] :
            world = [title |-> title, a |-> a, b |-> b,
                     verdict |-> verdict, found |-> found]
    /\ eq_at = NoTrailer
    /\ eq_mal = NoTrailer

RunBoth ==
    /\ eq_pc = "ready"
    /\ eq_pc' = "done"
    /\ eq_at' = AddTrailersMain(world)
    /\ eq_mal' = SelectEmbeddableTrailer(world)
    /\ UNCHANGED <<world, xvars, sysvars, rlvars, fnvars>>

NextEquiv == RunBoth

SpecEquiv == InitEquiv /\ [][NextEquiv]_vars

(***************************************************************************)
(* Provider A's answer through the normalizer and the two orchestrations,  *)
(* over every spelling of the site and every form of the id.               *)
(***************************************************************************)
ProviderAAnswers ==
    {AnilistNull} \cup
    {[isNone |-> FALSE, site |-> name, id |-> id, thumbnail |-> t] :
        name \in AnilistSites \cup {"YOUTUBE", ""},
        id \in VideoIds \cup {None, ""},
        t \in {None, CustomThumbnail(XYZ)}}

InitProviderA ==
    /\ XIdle
    /\ SysIdle
    /\ RLIdle
    /\ EqIdle
    /\ fn_pc = "ready"
    /\ \E a \in ProviderAAnswers, b \in RawJikanTrailers :
         \E verdict \in [VideoIds -> BOOLEAN], found \in FoundLists :
            fn_in = [title |-> "Title", a |-> a, b |-> b, verdict |-> verdict,
                     found |-> <<found, <<>>, <<>>>>]
    /\ fn_out = <<>>

\* The entry with this answer of provider A goes through the normalizer and
\* through each orchestration.
RunProviderA ==
    /\ fn_pc = "ready"
    /\ fn_pc' = "done"
    /\ fn_out' = [normalized |-> NormalizeAnilistTrailer(fn_in.a),
                  at  |-> AddTrailersMain(fn_in),
                  mal |-> SelectEmbeddableTrailer(fn_in)]
    /\ UNCHANGED <<fn_in, xvars, sysvars, rlvars, eqvars>>

NextProviderA == RunProviderA

SpecProviderA == InitProviderA /\ [][NextProviderA]_vars

(***************************************************************************)
(* The fetching functions and their retry after a 429 answer.  A run is a  *)
(* sequence of calls of the fetching functions of one site; fn_out keeps   *)
(* the clock (tenths of a second) and the log of the requests sent: the    *)
(* upstream, the time, whether it is the retry, and the status of the      *)
(* answer (0: no answer yet, or the request raised).                       *)
(***************************************************************************)
MaxCalls == 2

\* The functions that send requests, and the upstream each one asks.
FetchOps ==
    { [site |-> AddTrailers, name |-> "fetch_anilist_batch", api |-> "anilist"],
      [site |-> AddTrailers, name |-> "fetch_jikan_trailer", api |-> "jikan"],
      [site |-> AddTrailers, name |-> "fetch_player_response", api |-> "youtube"],
      [site |-> AddTrailers, name |-> "search_youtube_video_ids", api |-> "youtube"],
      [site |-> MalScraper, name |-> "_fetch_page", api |-> "mal"],
      [site |-> MalScraper, name |-> "_fetch_jikan", api |-> "jikan"],
      [site |-> MalScraper, name |-> "get_anilist_id", api |-> "anilist"],
      [site |-> MalScraper, name |-> "get_anilist_trailer", api |-> "anilist"],
      [site |-> MalScraper, name |-> "_fetch_player_response", api |-> "youtube"],
      [site |-> MalScraper, name |-> "_search_youtube_video_ids", api |-> "youtube"] }

HttpStatuses == {200, 429, 500, 0}

InitRetry ==
    /\ XIdle
    /\ SysIdle
    /\ RLIdle
    /\ EqIdle
    /\ fn_pc = "call"
    /\ \E s \in Sites : fn_in = [site |-> s, calls |-> 0]
    /\ fn_out = [clock |-> 0, log |-> <<>>, api |-> "mal"]

\* A fetching function is called and sends its request; some time has
\* passed since the previous call (the rate limiter's sleep, the caller's
\* sleep, or none).
CallFetch ==
    /\ fn_pc = "call"
    /\ fn_in.calls < MaxCalls
    /\ \E op \in FetchOps, d \in {0, YOUTUBE_DELAY} :
         /\ op.site = fn_in.site
         /\ fn_out' = [clock |-> fn_out.clock + d,
                       log |-> Append(fn_out.log,
                                  [api |-> op.api, at |-> fn_out.clock + d,
                                   retry |-> FALSE, status |-> 0]),
                       api |-> op.api]
    /\ fn_in' = [fn_in EXCEPT !.calls = @ + 1]
    /\ fn_pc' = "sent"
    /\ UNCHANGED <<xvars, sysvars, rlvars, eqvars>>

\* The answer to the first request: after status 429 a function that
\* retries goes to sleep, after any other answer (or an exception) the
\* function is left.
ReceiveAnswer ==
    /\ fn_pc = "sent"
    /\ \E status \in HttpStatuses :
         /\ fn_out' = [fn_out EXCEPT !.log[Len(fn_out.log)].status = status]
         /\ fn_pc' = IF status = 429 /\ Retries(fn_out.api) THEN "sleep" ELSE "call"
    /\ UNCHANGED <<fn_in, xvars, sysvars, rlvars, eqvars>>

\* time.sleep(5) or time.sleep(60), then the request again; whatever the
\* answer, the function is left.
SleepAndRetry ==
    /\ fn_pc = "sleep"
    /\ \E status \in HttpStatuses :
         LET at == fn_out.clock + RetrySleep(fn_out.api)
         IN  fn_out' = [fn_out EXCEPT
                           !.clock = at,
                           !.log = Append(@, [api |-> fn_out.api, at |-> at,
                                              retry |-> TRUE, status |-> status])]
    /\ fn_pc' = "call"
    /\ UNCHANGED <<fn_in, xvars, sysvars, rlvars, eqvars>>

NextRetry == CallFetch \/ ReceiveAnswer \/ SleepAndRetry

SpecRetry == InitRetry /\ [][NextRetry]_vars

(***************************************************************************)
(* The AniList batches of add_trailers.  AniList ids are numbers; an entry *)
(* without anilistId (or with anilistId 0) is written 0.                   *)
(***************************************************************************)
BATCH_SIZE == 50
MaxIds == 120

\* sorted(set(ids)) of the ids that are truthy, from element i of the list
\* on; acc is sorted and without repetition.
RECURSIVE SortedSetFrom(_, _, _)
SortedSetFrom(ids, i, acc) ==
    IF i > Len(ids) THEN acc
    ELSE LET x == ids[i]
             p == Cardinality({j \in 1..Len(acc) : acc[j] < x})
         IN  IF x = 0 \/ (p < Len(acc) /\ acc[p + 1] = x)
             THEN SortedSetFrom(ids, i + 1, acc)
             ELSE SortedSetFrom(ids, i + 1,
                     SubSeq(acc, 1, p) \o <<x>> \o SubSeq(acc, p + 1, Len(acc)))

\* unique_anilist_ids of main.
UniqueAnilistIds(ids) == SortedSetFrom(ids, 1, <<>>)

\* Mutant: the slice that is shorter than size is not yielded.
ChunkedFullOnly(items, size) ==
    [k \in 1..(Len(items) \div size) |-> SubSeq(items, (k - 1) * size + 1, k * size)]

\* chunked: items[i : i + size] for i in range(0, len(items), size).
RECURSIVE ChunkedFrom(_, _, _)
ChunkedFrom(items, size, i) ==
    IF i >= Len(items) THEN <<>>
    ELSE <<SubSeq(items, i + 1, Min({i + size, Len(items)}))>>
         \o ChunkedFrom(items, size, i + size)

Chunked(items, size) == ChunkedFrom(items, size, 0)

\* What AniList says about a medium.
TrailerOf(id) == [site |-> "youtube", id |-> id]

\* The answers to a batch: every medium of the batch, the media with an even
\* id, no medium, or an error.
BatchAnswers == {"all", "even", "none", "error"}

Media(batch, answer) ==
    LET known == {batch[j] : j \in 1..Len(batch)}
    IN  IF answer = "all" THEN known
        ELSE IF answer = "even" THEN {x \in known : x % 2 = 0}
        ELSE {}

\* fetch_anilist_batch: the dict of the media in the answer.
FetchAnilistBatch(batch, answer) == [x \in Media(batch, answer) |-> TrailerOf(x)]

\* dict.update
Update(results, trailers) ==
    [x \in DOMAIN results \cup DOMAIN trailers |->
        IF x \in DOMAIN trailers THEN trailers[x] ELSE results[x]]

\* The anilistId of the entries that need a trailer: n, ..., 1 and then
\* nothing, an entry without id, a repeated id, or both.
NeedsAnilistIds ==
    {Descending(n) \o tail :
        n \in 0..MaxIds, tail \in {<<>>, <<0>>, <<1>>, <<0, 2, 2>>}}

InitBatch ==
    /\ XIdle
    /\ SysIdle
    /\ RLIdle
    /\ EqIdle
    /\ fn_pc = "ready"
    /\ \E ids \in NeedsAnilistIds : fn_in = [ids |-> ids]
    /\ fn_out = [batches |-> <<>>, k |-> 0, requested |-> <<>>, answers |-> <<>>,
                 results |-> <<>>]

\* main, lines 358-366: the unique ids, and fetch_anilist_trailers is
\* called.
CallFetchAnilistTrailers ==
    /\ fn_pc = "ready"
    /\ fn_pc' = "loop"
    /\ fn_out' = [fn_out EXCEPT
                     !.batches = Chunked(UniqueAnilistIds(fn_in.ids), BATCH_SIZE),
                     !.k = 1]
    /\ UNCHANGED <<fn_in, xvars, sysvars, rlvars, eqvars>>

\* One turn of the loop of fetch_anilist_trailers: the batch is requested
\* and its media are merged into results; an error raises out of the
\* function.
FetchBatch ==
    /\ fn_pc = "loop"
    /\ fn_out.k <= Len(fn_out.batches)
    /\ \E answer \in BatchAnswers :
         LET batch == fn_out.batches[fn_out.k]
         IN  /\ fn_out' = [fn_out EXCEPT
                              !.requested = Append(@, batch),
                              !.answers = Append(@, answer),
                              !.results = IF answer = "error" THEN @
                                          ELSE Update(@, FetchAnilistBatch(batch, answer)),
                              !.k = IF answer = "error" THEN @ ELSE @ + 1]
             /\ fn_pc' = IF answer = "error" THEN "crashed" ELSE "loop"
    /\ UNCHANGED <<fn_in, xvars, sysvars, rlvars, eqvars>>

\* No batch is left: results is returned.
ReturnResults ==
    /\ fn_pc = "loop"
    /\ fn_out.k > Len(fn_out.batches)
    /\ fn_pc' = "done"
    /\ UNCHANGED <<fn_in, fn_out, xvars, sysvars, rlvars, eqvars>>

NextBatch == CallFetchAnilistTrailers \/ FetchBatch \/ ReturnResults

SpecBatch == InitBatch /\ [][NextBatch]_vars

(***************************************************************************)
(* The work of one call of the search fallback, on search pages with more  *)
(* ids than the limit keeps (the ids of these pages are numbers): the      *)
(* calls of the search and of the verifier and the HTTP requests sent.     *)
(***************************************************************************)
WorkPages == {<<>>, <<1>>, Ascending(MaxDistinct), Descending(MaxDistinct)}

WorkSearchResponses ==
    Exceptions \cup ErrorStatuses
    \cup {[kind |-> "http", status |-> 200, page |-> EmptyPage, matches |-> m] :
            m \in WorkPages}

\* fn_out of these runs: qi, candidates, ci: the loops' position; ecache,
\* scache: the two caches; searches: the calls of the search; verdicts: what
\* each call of the verifier returned; requests: the HTTP requests sent;
\* found: the id returned, 0 for none.
NoWork ==
    [qi |-> 0, candidates |-> <<>>, ci |-> 0, ecache |-> EmptyCache,
     scache |-> EmptySearchCache, searches |-> 0, verdicts |-> <<>>,
     requests |-> 0, found |-> 0]

InitWork ==
    /\ XIdle
    /\ SysIdle
    /\ RLIdle
    /\ EqIdle
    /\ fn_pc = "call"
    /\ \E s \in Sites, title \in Titles, blocked_ids \in {{}, {1}} :
         fn_in = [site |-> s, title |-> title, blocked_ids |-> blocked_ids]
    /\ fn_out = NoWork

\* find_embeddable_trailer is called.
WorkStart ==
    /\ fn_pc = "call"
    /\ IF HasTitleGuard(fn_in.site) /\ ~Truthy(fn_in.title)
       THEN fn_pc' = "done" /\ fn_out' = fn_out
       ELSE fn_pc' = "search" /\ fn_out' = [fn_out EXCEPT !.qi = 1]
    /\ UNCHANGED <<fn_in, xvars, sysvars, rlvars, eqvars>>

\* The loops from candidate index `from` of the current query on, up to the
\* next call of the verifier or of the search.
WorkContinue(out, from) ==
    LET c == FirstUnblocked(out.candidates, from, fn_in.blocked_ids) IN
    IF c # 0
    THEN fn_pc' = "cand" /\ fn_out' = [out EXCEPT !.ci = c]
    ELSE IF out.qi < Len(Queries(fn_in.title))
    THEN fn_pc' = "search"
         /\ fn_out' = [out EXCEPT !.qi = @ + 1, !.candidates = <<>>, !.ci = 0]
    ELSE fn_pc' = "done" /\ fn_out' = [out EXCEPT !.ci = 0]

\* The search for the current query.
WorkSearch ==
    /\ fn_pc = "search"
    /\ \E rr \in ResponsePairs(WorkSearchResponses) :
         LET x == SearchYoutubeVideoIds(fn_in.site, fn_out.scache,
                                        Queries(fn_in.title)[fn_out.qi], rr[1], rr[2])
             out == [fn_out EXCEPT !.searches = @ + 1,
                                   !.requests = @ + x.requests,
                                   !.scache = x.scache,
                                   !.candidates = x.results]
         IN  IF x.raised
             THEN fn_pc' = "crashed" /\ fn_out' = [out EXCEPT !.candidates = <<>>]
             ELSE WorkContinue(out, 1)
    /\ UNCHANGED <<fn_in, xvars, sysvars, rlvars, eqvars>>

\* The verifier on the current candidate.
WorkCheck ==
    /\ fn_pc = "cand"
    /\ \E rr \in ResponsePairs(WatchResponses) :
         LET video_id == fn_out.candidates[fn_out.ci]
             r   == IsEmbeddable(fn_in.site, fn_out.ecache, video_id, rr[1], rr[2])
             out == [fn_out EXCEPT !.verdicts = Append(@, r.ret),
                                   !.requests = @ + r.requests,
                                   !.ecache = r.cache]
         IN  IF r.ret = "raised"
             THEN fn_pc' = "crashed" /\ fn_out' = out
             ELSE IF Accepted(r.ret)
             THEN fn_pc' = "done" /\ fn_out' = [out EXCEPT !.found = video_id]
             ELSE WorkContinue(out, fn_out.ci + 1)
    /\ UNCHANGED <<fn_in, xvars, sysvars, rlvars, eqvars>>

NextWork == WorkStart \/ WorkSearch \/ WorkCheck

SpecWork == InitWork /\ [][NextWork]_vars

(***************************************************************************)
(* add_trailers.main on a file of several entries, pass by pass: --limit,  *)
(* --refresh, the AniList pass, the Jikan pass with its sleeps, and the    *)
(* verify pass with its counters.  The search fallback is taken by its     *)
(* result.  An entry is its title, its metadata.trailer and its ids (0: no *)
(* id).  Time is counted in tenths of a second.                            *)
(***************************************************************************)
MaxEntries == 2
ADD_TRAILERS_JIKAN_DELAY == 4

\* The AniList and MAL ids of the files of these runs.
AnilistId == 7
MalId == 9

\* The files: every other entry has no title; each entry has a trailer or
\* none, an AniList id or none, a MAL id or none.
FileFields ==
    [trailer : {NoTrailer, BuildYoutubeTrailer(ABC, "anilist")},
     anilistId : {0, AnilistId}, malId : {0, MalId}]

Files ==
    {[i \in 1..MaxEntries |->
        [title |-> IF i % 2 = 1 THEN "Title" ELSE "", trailer |-> f[i].trailer,
         anilistId |-> f[i].anilistId, malId |-> f[i].malId]] :
     f \in [1..MaxEntries -> FileFields]}

\* args.limit: given or not, and the number.
Limits == {[given |-> FALSE, n |-> 0]} \cup {[given |-> TRUE, n |-> k] : k \in 0..1}

\* "if args.limit: anime_list = anime_list[: args.limit]": the length of
\* anime_list.
Limited(len, limit) ==
    IF limit.given /\ limit.n # 0 THEN Min({limit.n, len}) ELSE len

\* What AniList and Jikan answer in these runs.
PassAnilistAnswers ==
    {r \in RawAnilistTrailers : r.isNone \/ r.site = "youtube"}
PassJikanAnswers ==
    {r \in RawJikanTrailers : r.isNone \/ Truthy(r.youtube_id) \/ r.url = VimeoUrl}

\* fn_out of these runs.  es: the entries of the file; n: the length of
\* anime_list; needs: the indices of `needs`; missing: those of
\* missing_after_anilist, in order; j, v: the positions of the Jikan loop
\* and of the verify loop; ecache: embed_cache; replaced, removed,
\* still_blocked: the counters and the list of main.  History: clock; jlog:
\* the Jikan requests sent (entry, time, whether the fetch raised); outcome: what the verify pass did
\* with each entry; acquired: the entries as the acquisition passes left
\* them.
NoPasses ==
    [es |-> <<>>, n |-> 0, needs |-> {}, missing |-> <<>>, j |-> 0, v |-> 0,
     ecache |-> EmptyCache, replaced |-> 0, removed |-> 0, still_blocked |-> <<>>,
     clock |-> 0, jlog |-> <<>>, outcome |-> <<>>, acquired |-> <<>>]

InitPasses ==
    /\ XIdle
    /\ SysIdle
    /\ RLIdle
    /\ EqIdle
    /\ fn_pc = "ready"
    /\ \E rf \in BOOLEAN, limit \in Limits, data \in Files :
         fn_in = [refresh |-> rf, limit |-> limit, data |-> data]
    /\ fn_out = NoPasses

\* The indices of a set in ascending order.
RECURSIVE InOrder(_)
InOrder(S) == IF S = {} THEN <<>> ELSE <<Min(S)>> \o InOrder(S \ {Min(S)})

\* main, lines 343-356: the file is read, the list is cut to the limit and
\* `needs` is built.
ReadFile ==
    /\ fn_pc = "ready"
    /\ fn_pc' = "anilist"
    /\ LET n == Limited(Len(fn_in.data), fn_in.limit)
       IN  fn_out' = [fn_out EXCEPT
                         !.es = fn_in.data,
                         !.n = n,
                         !.needs = Needs(SubSeq(fn_in.data, 1, n), fn_in.refresh),
                         !.outcome = [i \in 1..Len(fn_in.data) |-> "none"]]
    /\ UNCHANGED <<fn_in, xvars, sysvars, rlvars, eqvars>>

\* Lines 358-382: the AniList ids of `needs` are fetched and each entry of
\* `needs` gets the normalized trailer of its id or goes to
\* missing_after_anilist; an error of the fetch raises out of main.
AnilistPass ==
    /\ fn_pc = "anilist"
    /\ LET es  == fn_out.es
           ids == {es[i].anilistId : i \in fn_out.needs} \ {0}
       IN  \E ok \in (IF ids = {} THEN {TRUE} ELSE BOOLEAN) :
           \E anilist_trailers \in [ids -> PassAnilistAnswers] :
             IF ~ok
             THEN /\ anilist_trailers = [x \in ids |-> AnilistNull]
                  /\ fn_pc' = "crashed"
                  /\ fn_out' = fn_out
             ELSE LET norm == [i \in fn_out.needs |->
                                 IF es[i].anilistId = 0 THEN NoTrailer
                                 ELSE NormalizeAnilistTrailer(
                                          anilist_trailers[es[i].anilistId])]
                  IN  /\ fn_pc' = "jikan"
                      /\ fn_out' = [fn_out EXCEPT
                            !.es = [i \in 1..Len(es) |->
                                      IF i \in fn_out.needs /\ norm[i] # NoTrailer
                                      THEN [es[i] EXCEPT !.trailer = norm[i]]
                                      ELSE es[i]],
                            !.missing = InOrder({i \in fn_out.needs : norm[i] = NoTrailer}),
                            !.j = 1]
    /\ UNCHANGED <<fn_in, xvars, sysvars, rlvars, eqvars>>

\* One turn of the Jikan loop, lines 389-408, for an entry without MAL id:
\* continue.
JikanSkip ==
    /\ fn_pc = "jikan"
    /\ fn_out.j <= Len(fn_out.missing)
    /\ fn_out.es[fn_out.missing[fn_out.j]].malId = 0
    /\ fn_out' = [fn_out EXCEPT !.j = @ + 1]
    /\ UNCHANGED <<fn_pc, fn_in, xvars, sysvars, rlvars, eqvars>>

\* One turn of the Jikan loop for an entry with MAL id: fetch_jikan_trailer
\* (after a 429 answer: sleep 5 s and the request again); a request error
\* or an unreadable answer is caught and the loop continues; otherwise the
\* normalized trailer, if any, is stored and the loop sleeps JIKAN_DELAY.
JikanFetch ==
    /\ fn_pc = "jikan"
    /\ fn_out.j <= Len(fn_out.missing)
    /\ LET i == fn_out.missing[fn_out.j] IN
       /\ fn_out.es[i].malId # 0
       /\ \E retry \in BOOLEAN, ok \in BOOLEAN, raw \in PassJikanAnswers :
            LET sent == IF retry
                        THEN <<[entry |-> i, at |-> fn_out.clock, raised |-> ~ok],
                               [entry |-> i, at |-> fn_out.clock + JIKAN_RETRY_SLEEP,
                                raised |-> ~ok]>>
                        ELSE <<[entry |-> i, at |-> fn_out.clock, raised |-> ~ok]>>
                now  == fn_out.clock + (IF retry THEN JIKAN_RETRY_SLEEP ELSE 0)
                norm == NormalizeJikanTrailer(raw)
            IN  IF ~ok
                THEN /\ raw = JikanNull
                     /\ fn_out' = [fn_out EXCEPT !.j = @ + 1, !.clock = now,
                                                 !.jlog = @ \o sent]
                ELSE fn_out' = [fn_out EXCEPT
                        !.j = @ + 1,
                        !.clock = now + ADD_TRAILERS_JIKAN_DELAY,
                        !.jlog = @ \o sent,
                        !.es = IF norm # NoTrailer
                               THEN [@ EXCEPT ![i].trailer = norm]
                               ELSE @]
    /\ UNCHANGED <<fn_pc, fn_in, xvars, sysvars, rlvars, eqvars>>

\* The Jikan loop has ended: lines 412-415.
StartVerify ==
    /\ fn_pc = "jikan"
    /\ fn_out.j > Len(fn_out.missing)
    /\ fn_pc' = "verify"
    /\ fn_out' = [fn_out EXCEPT !.v = 1, !.acquired = fn_out.es]
    /\ UNCHANGED <<fn_in, xvars, sysvars, rlvars, eqvars>>

\* What find_embeddable_trailer returns in these runs: nothing, a trailer,
\* or it raises.
PassAlternatives == {"none", "found", "raised"}

\* Mutant: the removal is not counted.
RemoveTrailerUncounted(out, i) ==
    [out EXCEPT
        !.es[i].trailer = NoTrailer,
        !.still_blocked = Append(@, IF Truthy(out.es[i].title) THEN out.es[i].title
                                    ELSE "Unknown title"),
        !.outcome[i] = "removed"]

\* Lines 446-450: no alternative was found.
RemoveTrailer(out, i) ==
    [out EXCEPT
        !.es[i].trailer = NoTrailer,
        !.removed = @ + 1,
        !.still_blocked = Append(@, IF Truthy(out.es[i].title) THEN out.es[i].title
                                    ELSE "Unknown title"),
        !.outcome[i] = "removed"]

\* One turn of the verify loop, lines 418-450.
VerifyEntry ==
    /\ fn_pc = "verify"
    /\ fn_out.v <= fn_out.n
    /\ LET i == fn_out.v
           entry == fn_out.es[i]
           next == [fn_out EXCEPT !.v = @ + 1]
       IN  IF ~Verifiable(entry)
           THEN /\ fn_pc' = "verify"
                /\ fn_out' = [next EXCEPT !.outcome[i] = "skipped"]
           ELSE \E rr \in ResponsePairs(WatchResponses), alt \in PassAlternatives :
                  LET video_id == TrailerVideoId(entry.trailer)
                      r == IsEmbeddable(AddTrailers, fn_out.ecache, video_id, rr[1], rr[2])
                      checked == [next EXCEPT !.ecache = r.cache]
                  IN  IF r.ret = "raised"
                      THEN fn_pc' = "crashed" /\ fn_out' = [checked EXCEPT !.v = i]
                      ELSE IF Accepted(r.ret)
                      THEN /\ alt = "none"
                           /\ fn_pc' = "verify"
                           /\ fn_out' = [checked EXCEPT !.es[i].trailer.id = video_id,
                                                        !.outcome[i] = "kept"]
                      ELSE IF alt = "raised"
                      THEN fn_pc' = "crashed" /\ fn_out' = [checked EXCEPT !.v = i]
                      ELSE IF alt = "found"
                      THEN /\ fn_pc' = "verify"
                           /\ fn_out' = [checked EXCEPT
                                 !.es[i].trailer = BuildYoutubeTrailer(XYZ, "youtube-search"),
                                 !.ecache = CacheStore(r.cache, XYZ, TRUE),
                                 !.replaced = @ + 1,
                                 !.outcome[i] = "replaced"]
                      ELSE /\ fn_pc' = "verify"
                           /\ fn_out' = RemoveTrailer(checked, i)
    /\ UNCHANGED <<fn_in, xvars, sysvars, rlvars, eqvars>>

\* Lines 452-465: the summary is printed and the file is written.
WriteFile ==
    /\ fn_pc = "verify"
    /\ fn_out.v > fn_out.n
    /\ fn_pc' = "done"
    /\ UNCHANGED <<fn_in, fn_out, xvars, sysvars, rlvars, eqvars>>

NextPasses ==
    \/ ReadFile
    \/ AnilistPass
    \/ JikanSkip
    \/ JikanFetch
    \/ StartVerify
    \/ VerifyEntry
    \/ WriteFile

SpecPasses == InitPasses /\ [][NextPasses]_vars

(***************************************************************************)
(* MALScraper.scrape_anime called once, then format_for_database on its    *)
(* result, with every call it makes to the outside recorded in order.      *)
(***************************************************************************)
\* What Jikan gives as the entry's type: absent, null, or a type name.
MetadataTypes == {None, "", "TV", "Movie"}

\* What scrape_episode_scores returns: the episode numbers in page order.
ScrapedEpisodes == {<<>>, <<1>>, <<2, 1>>}

\* What a call of _is_youtube_embeddable does.
SelectVerdicts == {"true", "false", "raised"}

\* The ids a search page can list.
SearchIds == {ABC, XYZ, JKN}

\* Python's None where the code expects the metadata dict.
NoMetadata == [isNone |-> TRUE, type |-> None, trailer |-> NoTrailer, anilistId |-> 0]

\* Python's None where the code expects a database entry.
NoEntry == [isNone |-> TRUE, type |-> None, episodes |-> <<>>, trailer |-> NoTrailer,
            anilistId |-> 0]

\* scrape_anime's `result` (lines 625-631), its locals, and the calls made.
NoScrape ==
    [metadata |-> NoMetadata, episodes |-> <<>>, scrape_errors |-> <<>>,
     local |-> NoMetadata, anilist_trailer |-> NoTrailer, calls |-> <<>>,
     formatted |-> NoEntry]

InitScrape ==
    /\ XIdle
    /\ SysIdle
    /\ RLIdle
    /\ EqIdle
    /\ fn_pc = "ready"
    /\ \E fetch_metadata \in BOOLEAN, title \in Titles :
         fn_in = [fetch_metadata |-> fetch_metadata, title |-> title]
    /\ fn_out = NoScrape

\* Mutant: no type is taken for a type other than TV.
NonTVNever(metadata) == FALSE

\* The test of lines 636 and 710: the type is present and is not "TV".
NonTV(metadata) == Truthy(metadata.type) /\ metadata.type # "TV"

\* get_anime_metadata and the type check (lines 634-640): an entry of a type
\* other than TV is returned with its metadata and the error.
GetAnimeMetadata ==
    /\ fn_pc = "ready"
    /\ fn_in.fetch_metadata
    /\ \E ok \in BOOLEAN, type \in MetadataTypes, raw \in RawJikanTrailers :
         LET metadata == [isNone |-> FALSE, type |-> type,
                          trailer |-> NormalizeJikanTrailer(raw), anilistId |-> 0]
             called == [fn_out EXCEPT !.calls = Append(@, "jikan")]
         IN  IF ~ok
             THEN /\ type = None /\ raw = JikanNull
                  /\ fn_pc' = "slug"
                  /\ fn_out' = [called EXCEPT !.scrape_errors =
                                   Append(@, "Could not fetch metadata from Jikan")]
             ELSE IF NonTV(metadata)
             THEN /\ fn_pc' = "returned"
                  /\ fn_out' = [called EXCEPT
                                   !.metadata = metadata,
                                   !.scrape_errors = Append(@, "Non-TV type skipped")]
             ELSE /\ fn_pc' = "anilist_id"
                  /\ fn_out' = [called EXCEPT !.local = metadata]
    /\ UNCHANGED <<fn_in, xvars, sysvars, rlvars, eqvars>>

\* get_anilist_id (lines 643-649): an id, or None on any failure.
GetAnilistId ==
    /\ fn_pc = "anilist_id"
    /\ \E found \in BOOLEAN :
         LET called == [fn_out EXCEPT !.calls = Append(@, "anilist_id")]
         IN  IF found
             THEN /\ fn_pc' = "anilist_trailer"
                  /\ fn_out' = [called EXCEPT !.local.anilistId = AnilistId]
             ELSE /\ fn_pc' = "select"
                  /\ fn_out' = called
    /\ UNCHANGED <<fn_in, xvars, sysvars, rlvars, eqvars>>

\* get_anilist_trailer (line 647): the normalized trailer, or None.
GetAnilistTrailer ==
    /\ fn_pc = "anilist_trailer"
    /\ \E ok \in BOOLEAN, raw \in RawAnilistTrailers :
         /\ ~ok => raw = AnilistNull
         /\ fn_pc' = "select"
         /\ fn_out' = [fn_out EXCEPT
                          !.calls = Append(@, "anilist_trailer"),
                          !.anilist_trailer = NormalizeAnilistTrailer(raw)]
    /\ UNCHANGED <<fn_in, xvars, sysvars, rlvars, eqvars>>

\* Whether _select_embeddable_trailer's loop gives the candidate to the
\* verifier (lines 476-480).
HasVideoId(candidate) == candidate # NoTrailer /\ Truthy(TrailerVideoId(candidate))

\* The candidate as line 481-484 returns it.
Selected(candidate, source) ==
    [candidate EXCEPT !.id = TrailerVideoId(candidate),
                      !.source = IF Truthy(candidate.source) THEN candidate.source
                                 ELSE source]

\* _select_embeddable_trailer (lines 467-487) and the assignment of its
\* result (lines 651-661): va and vj are what the verifier does for the two
\* candidates, hit is the id the search finds embeddable (None: it finds
\* none).  A call of the verifier that raises ends the run.
SelectTrailer ==
    /\ fn_pc = "select"
    /\ \E va \in SelectVerdicts, vj \in SelectVerdicts, hit \in SearchIds \cup {None} :
         LET at     == fn_out.anilist_trailer
             jt     == fn_out.local.trailer
             title  == fn_in.title
             askA   == HasVideoId(at)
             takeA  == askA /\ Accepted(va)
             failA  == askA /\ va = "raised"
             askJ   == ~takeA /\ ~failA /\ HasVideoId(jt)
             takeJ  == askJ /\ Accepted(vj)
             failJ  == askJ /\ vj = "raised"
             blocked_ids == (IF askA THEN {TrailerVideoId(at)} ELSE {})
                               \cup (IF askJ THEN {TrailerVideoId(jt)} ELSE {})
             find   == ~takeA /\ ~failA /\ ~takeJ /\ ~failJ /\ Truthy(title)
             calls  == (IF askA THEN <<"verifier">> ELSE <<>>)
                          \o (IF askJ THEN <<"verifier">> ELSE <<>>)
                          \o (IF ~find THEN <<>>
                              ELSE IF hit = None THEN <<"search", "search", "search">>
                              ELSE <<"search", "verifier">>)
             selected_trailer ==
                 IF takeA THEN Selected(at, "anilist")
                 ELSE IF takeJ THEN Selected(jt, "jikan")
                 ELSE IF find /\ hit # None THEN BuildYoutubeTrailer(hit, "youtube-search")
                 ELSE NoTrailer
         IN  /\ ~askA => va = "false"
             /\ ~askJ => vj = "false"
             /\ hit # None => find /\ hit \notin blocked_ids
             /\ IF failA \/ failJ
                THEN /\ fn_pc' = "crashed"
                     /\ fn_out' = [fn_out EXCEPT !.calls = @ \o calls]
                ELSE /\ fn_pc' = "slug"
                     /\ fn_out' = [fn_out EXCEPT
                                      !.calls = @ \o calls,
                                      !.local.trailer = selected_trailer,
                                      !.metadata = [fn_out.local EXCEPT
                                                       !.trailer = selected_trailer]]
    /\ UNCHANGED <<fn_in, xvars, sysvars, rlvars, eqvars>>

\* get_anime_slug (lines 666-671): the entry's MAL page is fetched.
GetAnimeSlug ==
    /\ fn_pc = "slug" \/ (fn_pc = "ready" /\ ~fn_in.fetch_metadata)
    /\ \E slug \in BOOLEAN :
         LET called == [fn_out EXCEPT !.calls = Append(@, "mal_page")]
         IN  IF slug
             THEN /\ fn_pc' = "episodes"
                  /\ fn_out' = called
             ELSE /\ fn_pc' = "returned"
                  /\ fn_out' = [called EXCEPT !.scrape_errors =
                                   Append(@, "Could not get URL slug")]
    /\ UNCHANGED <<fn_in, xvars, sysvars, rlvars, eqvars>>

\* sorted(episodes, key=lambda x: x["episode"]) for distinct episode numbers.
SortedByEpisode(episodes) == InOrder({episodes[i] : i \in DOMAIN episodes})

\* scrape_episode_scores (lines 676-684): the episode page is fetched.
ScrapeEpisodeScores ==
    /\ fn_pc = "episodes"
    /\ fn_pc' = "returned"
    /\ \E episodes \in ScrapedEpisodes :
         LET called == [fn_out EXCEPT !.calls = Append(@, "mal_episodes")]
         IN  fn_out' = IF episodes = <<>>
                       THEN [called EXCEPT !.scrape_errors =
                                Append(@, "No episode scores found")]
                       ELSE [called EXCEPT !.episodes = SortedByEpisode(episodes)]
    /\ UNCHANGED <<fn_in, xvars, sysvars, rlvars, eqvars>>

\* format_for_database (lines 702-741), as far as the entry's trailer, type,
\* episodes and anilistId go.
FormatForDatabase(scrape_result) ==
    LET meta == scrape_result.metadata IN
    IF meta.isNone \/ scrape_result.episodes = <<>> THEN NoEntry
    ELSE IF NonTV(meta) THEN NoEntry
    ELSE [isNone |-> FALSE, type |-> meta.type, episodes |-> scrape_result.episodes,
          trailer |-> meta.trailer, anilistId |-> meta.anilistId]

\* main with --format-db (lines 810-813): the result is formatted.
CallFormatForDatabase ==
    /\ fn_pc = "returned"
    /\ fn_pc' = "formatted"
    /\ fn_out' = [fn_out EXCEPT !.formatted = FormatForDatabase(fn_out)]
    /\ UNCHANGED <<fn_in, xvars, sysvars, rlvars, eqvars>>

NextScrape ==
    \/ GetAnimeMetadata
    \/ GetAnilistId
    \/ GetAnilistTrailer
    \/ SelectTrailer
    \/ GetAnimeSlug
    \/ ScrapeEpisodeScores
    \/ CallFormatForDatabase

SpecScrape == InitScrape /\ [][NextScrape]_vars

(***************************************************************************)
(* The verifier alone: called for any id after any id, on one cache, until *)
(* a call raises.                                                          *)
(***************************************************************************)
InitVerifier ==
    /\ XIdle
    /\ SideIdle
    /\ site \in Sites
    /\ entry_point = "verify"
    /\ refresh = FALSE
    /\ entries = <<>>
    /\ pc = "call"
    /\ cur = 0
    /\ missing = {}
    /\ embed_cache = EmptyCache
    /\ search_cache = EmptySearchCache
    /\ trailer = NoTrailer
    /\ anilist_trailer = NoTrailer
    /\ jikan_trailer = NoTrailer
    /\ ck = 0
    /\ fr = NoFrame
    /\ fetches = [v \in VideoIds |-> 0]
    /\ last = NoLast
    /\ lastresp = <<NoResponse, NoResponse>>
    /\ res = NoRes
    /\ searches = [i \in 1..NumEntries |-> 0]
    /\ qfetches = [q \in AllQueries |-> 0]
    /\ provided = [i \in 1..NumEntries |-> NotAsked]

CallVerifier ==
    /\ pc = "call"
    /\ \E video_id \in VideoIds :
       \E rr \in ResponsePairs(WatchResponses) :
         LET r == IsEmbeddable(site, embed_cache, video_id, rr[1], rr[2])
         IN  /\ RecordVerifier(video_id, rr[1], rr[2], r)
             /\ pc' = IF r.ret = "raised" THEN "crashed" ELSE "call"
    /\ UNCHANGED <<xvars, sidevars, qfetches, config, entries, cur, missing, search_cache, trailer,
                   anilist_trailer, jikan_trailer, ck, fr, res, searches, provided>>

NextVerifier == CallVerifier

SpecVerifier == InitVerifier /\ [][NextVerifier]_vars

(***************************************************************************)
(* The search fallback alone: one call with any title and any blocked set, *)
(* on any verdict cache.                                                   *)
(***************************************************************************)
Caches == UNION {[B -> BOOLEAN] : B \in SUBSET VideoIds}

InitFind ==
    /\ XIdle
    /\ SideIdle
    /\ site \in Sites
    /\ entry_point = "find"
    /\ refresh = FALSE
    /\ entries = <<[title |-> "", trailer |-> NoTrailer, scrape_error |-> ""]>>
    /\ pc = "call"
    /\ cur = 1
    /\ missing = {}
    /\ embed_cache \in Caches
    /\ search_cache = EmptySearchCache
    /\ trailer = NoTrailer
    /\ anilist_trailer = NoTrailer
    /\ jikan_trailer = NoTrailer
    /\ ck = 0
    /\ fr = NoFrame
    /\ fetches = [v \in VideoIds |-> 0]
    /\ last = NoLast
    /\ lastresp = <<NoResponse, NoResponse>>
    /\ res = NoRes
    /\ searches = [i \in 1..NumEntries |-> 0]
    /\ qfetches = [q \in AllQueries |-> 0]
    /\ provided = [i \in 1..NumEntries |-> NotAsked]

CallFind ==
    /\ pc = "call"
    /\ \E title \in Titles, blocked_ids \in SUBSET VideoIds :
         StartFind(title, blocked_ids)
    /\ UNCHANGED <<xvars, sidevars, qfetches, config, missing, embed_cache, search_cache, trailer,
                   anilist_trailer, jikan_trailer, ck, fetches, last, lastresp,
                   searches, provided>>

NextFind ==
    \/ CallFind
    \/ Search
    \/ CheckCandidate

SpecResolver == InitFind /\ [][NextFind]_vars

(***************************************************************************)
(* The search alone: called for any query after any query in one run,      *)
(* until a call raises.  Every resolver invocation reaches the search page *)
(* through this function only.                                             *)
(***************************************************************************)
MaxQueryFetches == 2

\* The queries of two entries with the same title.
SameTitleQueries == {Queries("Title")[i] : i \in 1..3}

InitSearch ==
    /\ XIdle
    /\ SideIdle
    /\ site \in Sites
    /\ entry_point = "search"
    /\ refresh = FALSE
    /\ entries = <<>>
    /\ pc = "call"
    /\ cur = 0
    /\ missing = {}
    /\ embed_cache = EmptyCache
    /\ search_cache = EmptySearchCache
    /\ trailer = NoTrailer
    /\ anilist_trailer = NoTrailer
    /\ jikan_trailer = NoTrailer
    /\ ck = 0
    /\ fr = NoFrame
    /\ fetches = [v \in VideoIds |-> 0]
    /\ last = NoLast
    /\ lastresp = <<NoResponse, NoResponse>>
    /\ res = NoRes
    /\ searches = [i \in 1..NumEntries |-> 0]
    /\ qfetches = [q \in AllQueries |-> 0]
    /\ provided = [i \in 1..NumEntries |-> NotAsked]

CallSearch ==
    /\ pc = "call"
    /\ \E query \in SameTitleQueries :
       \E rr \in ResponsePairs(SearchResponses) :
         LET x == SearchYoutubeVideoIds(site, search_cache, query, rr[1], rr[2])
         IN  /\ qfetches[query] < MaxQueryFetches
             /\ search_cache' = x.scache
             /\ qfetches' = [qfetches EXCEPT ![query] = @ + (IF x.requests > 0 THEN 1 ELSE 0)]
             /\ res' = [NoRes EXCEPT !.queries = <<query>>, !.qres = <<x.results>>]
             /\ lastresp' = << IF x.requests >= 1 THEN rr[1] ELSE NoResponse,
                               IF x.requests >= 2 THEN rr[2] ELSE NoResponse >>
             /\ pc' = IF x.raised THEN "crashed" ELSE "call"
    /\ UNCHANGED <<xvars, sidevars, config, entries, cur, missing, embed_cache, trailer,
                   anilist_trailer, jikan_trailer, ck, fr, fetches, last,
                   searches, provided>>

NextSearch == CallSearch

SpecSearch == InitSearch /\ [][NextSearch]_vars

(***************************************************************************)
(* Properties of the verifier.                                             *)
(***************************************************************************)
\* The response the last call of the verifier went on with.
FinalResponse == IF lastresp[2] # NoResponse THEN lastresp[2] ELSE lastresp[1]

\* The last call of the verifier went to the network.
Fetched == last.op = "verify" /\ lastresp[1] # NoResponse

\* C1: for any video id, all the calls of the verifier with it make exactly one
\* fetch of its watch page in total; a call for an id the cache holds answers
\* from the cache and sends no request.
C1_OneFetchPerVideoId ==
    /\ \A v \in VideoIds : fetches[v] <= 1
    /\ \A v \in DOMAIN embed_cache : fetches[v] = 1
    /\ (last.op = "verify" /\ last.known) =>
          /\ last.fetches = 0
          /\ lastresp = <<NoResponse, NoResponse>>
          /\ last.ret = BoolStr(embed_cache[last.vid])

\* C1 witness: a second call for an id whose first call fetched its page.
C1_Witness ==
    /\ last.op = "verify"
    /\ last.known
    /\ fetches[last.vid] = 1
    /\ lastresp = <<NoResponse, NoResponse>>

\* The positions of the run at which the next step calls the verifier.
VerifierPcs == {"at_verify", "mal_verify", "cand"}

\* C2: a stored verdict is a boolean, no step of the run changes or removes
\* it, and a call of the verifier for its id returns it.
C2_CacheWriteOnce ==
    [][ /\ \A v \in DOMAIN embed_cache :
              v \in DOMAIN embed_cache' /\ embed_cache'[v] = embed_cache[v]
        /\ \A v \in DOMAIN embed_cache' : embed_cache'[v] \in BOOLEAN
        /\ (pc \in VerifierPcs /\ last'.vid \in DOMAIN embed_cache) =>
              last'.ret = BoolStr(embed_cache[last'.vid]) ]_vars

\* C2 witness: a not-embeddable verdict was stored and a later call for the
\* same id returned it.
C2_Witness ==
    /\ last.op = "verify"
    /\ last.known
    /\ last.ret = "false"
    /\ embed_cache[last.vid] = FALSE

\* The fetch of the last call failed: a transport error or an error status.
FetchFailed == Fetched /\ (IsException(FinalResponse) \/ FinalResponse.status >= 400)

\* C3 (as stated): every call of the verifier returns a boolean, and a call
\* whose fetch failed (error status, 429 twice, timeout, connection failure)
\* returns false and stores false for the id.
C3_VerifierNeverRaises ==
    last.op = "verify" =>
        /\ last.ret \in {"true", "false"}
        /\ FetchFailed =>
              /\ last.ret = "false"
              /\ last.vid \in DOMAIN embed_cache
              /\ embed_cache[last.vid] = FALSE

\* The last call fetched the page and parsed a document with a status object.
ParsedStatus ==
    /\ Fetched
    /\ ~IsException(FinalResponse)
    /\ FinalResponse.status = 200
    /\ FinalResponse.page.doc \in StatusDocs

\* C4: for a fetched and parsed status document the result is
\* (status = "OK") and (playableInEmbed is not false), and the cache holds
\* the value returned.
C4_VerdictOfStatusDocument ==
    ParsedStatus =>
        LET d == FinalResponse.page.doc
            e == (d.status = "OK" /\ d.pie # "false")
        IN  /\ last.ret = BoolStr(e)
            /\ last.vid \in DOMAIN embed_cache
            /\ embed_cache[last.vid] = e

\* C4 witness: status OK without playableInEmbed was found embeddable.
C4_Witness ==
    /\ ParsedStatus
    /\ FinalResponse.page.doc.status = "OK"
    /\ FinalResponse.page.doc.pie = None
    /\ last.ret = "true"

\* The page of the last call has no marker, or no closing brace after the
\* marker brings the depth back to zero, or the extracted text is no JSON.
NoDocumentIn(page) ==
    LET h == page.html
        m == {i \in 1..Len(h) : h[i] = MK}
    IN  \/ m = {}
        \/ FirstZeroDepthClose(h, Min(m) + 1) = 0
        \/ SubSeq(h, Min(m) + 1, FirstZeroDepthClose(h, Min(m) + 1)) # page.json_text

\* C5: a page fetched with success in which the marker is absent, the braces
\* do not balance or the extracted text does not parse makes the verifier
\* store false and return false.
C5_ExtractionFailureIsFalse ==
    (Fetched /\ ~IsException(FinalResponse) /\ FinalResponse.status = 200
        /\ NoDocumentIn(FinalResponse.page)) =>
        /\ last.ret = "false"
        /\ last.vid \in DOMAIN embed_cache
        /\ embed_cache[last.vid] = FALSE

\* C5 witness: a page whose braces do not balance was answered with false.
C5_Witness ==
    /\ Fetched
    /\ FinalResponse.status = 200
    /\ FinalResponse.page = UnbalancedPage
    /\ last.ret = "false"
    /\ embed_cache[last.vid] = FALSE

(***************************************************************************)
(* Properties of the search fallback.                                      *)
(***************************************************************************)
\* The fallback returned an id.
Hit == res.ret \in VideoIds

\* C7: a result of the search fallback that is not null has an id outside
\* the blocked set whose cached verdict is embeddable.
C7_NeverReturnsBlocked ==
    Hit =>
        /\ res.ret \notin res.blocked
        /\ res.ret \in DOMAIN embed_cache
        /\ embed_cache[res.ret] = TRUE
        /\ entries[res.entry].trailer.id = res.ret

\* C7 witness: the first candidate found was blocked although the cache held
\* it as embeddable, and the next one was returned.
C7_Witness ==
    /\ Hit
    /\ Len(res.qres) = 1
    /\ res.qres[1] = <<ABC, XYZ>>
    /\ ABC \in res.blocked
    /\ ABC \in DOMAIN embed_cache
    /\ embed_cache[ABC]
    /\ res.ret = XYZ

RECURSIVE Flatten(_)
Flatten(ss) == IF ss = <<>> THEN <<>> ELSE Head(ss) \o Flatten(Tail(ss))

\* The ids of the lists `lists`, in order, that are not blocked.
Unblocked(lists) == SelectSeq(Flatten(lists), LAMBDA v : v \notin res.blocked)

\* The verifier rejected the i-th id the fallback handed to it.
Rejected(i) ==
    /\ res.checked[i] \in DOMAIN embed_cache
    /\ embed_cache[res.checked[i]] = FALSE

\* C8: the queries are searched in the order "{title} official trailer",
\* "{title} trailer", "{title} PV"; the ids handed to the verifier are the
\* non-blocked ids of the result lists in order, a later query being searched
\* only when all of them were rejected; the id returned is the first one
\* accepted, and it is the last id verified and of the last query searched.
C8_GreedyFirstMatch ==
    res.ret # "idle" =>
        LET expected == << fr.title \o " official trailer", fr.title \o " trailer",
                           fr.title \o " PV" >>
            order    == Unblocked(res.qres)
            earlier  == Unblocked(SubSeq(res.qres, 1, Len(res.qres) - 1))
            nc       == Len(res.checked)
        IN  /\ Len(res.queries) <= 3
            /\ \A i \in 1..Len(res.queries) : res.queries[i] = expected[i]
            /\ nc <= Len(order)
            /\ res.checked = SubSeq(order, 1, nc)
            /\ nc >= Len(earlier)
            /\ \A i \in 1..(nc - 1) : Rejected(i)
            /\ (nc >= 1 /\ ~Hit /\ pc # "crashed") => Rejected(nc)
            /\ Hit => /\ nc > Len(earlier)
                      /\ res.checked[nc] = res.ret
                      /\ embed_cache[res.ret] = TRUE
            /\ res.ret = None => nc = Len(order)

\* C8 witness: every candidate of the first query was skipped or rejected and
\* a candidate of the second query was returned.
C8_Witness ==
    /\ Hit
    /\ Len(res.qres) = 2
    /\ res.qres[1] = <<ABC, XYZ>>
    /\ res.blocked = {ABC}
    /\ res.qres[2] = <<XYZ, JKN>>
    /\ res.checked = <<XYZ, XYZ, JKN>>
    /\ res.ret = JKN

(***************************************************************************)
(* Properties of the runs.                                                 *)
(***************************************************************************)
\* The repair scenario: the entry's trailer of provider A (AniList) has id
\* abc12345678, the verifier rejected it, and the search for "Title official
\* trailer" gave [abc12345678, xyz98765432] with xyz98765432 embeddable.
RepairScenario ==
    /\ Hit
    /\ pc # "crashed"
    /\ IF site = AddTrailers
       THEN trailer.id = ABC /\ trailer.source = "anilist"
       ELSE anilist_trailer.id = ABC
    /\ ABC \in res.blocked
    /\ ABC \in DOMAIN embed_cache /\ ~embed_cache[ABC]
    /\ res.queries[1] = "Title official trailer"
    /\ res.qres[1] = <<ABC, XYZ>>
    /\ XYZ \in DOMAIN embed_cache /\ embed_cache[XYZ]

C10_NoDataNoSearch ==
    \A i \in 1..Len(entries) :
        (~provided[i].prior /\ provided[i].a = "null" /\ provided[i].b = "null") =>
            /\ entries[i].trailer = NoTrailer
            /\ searches[i] = 0

\* Position of the first character after the marker (the scan's start).
XStart == FindMarker(xhtml) + 1

\* C6 (as stated): for every body, the extraction ends exactly at the closing
\* brace that matches the first opening brace after the marker (strings and
\* escaped quotes honoured), and fails exactly when there is no such brace.
C6_EndsAtMatchingBrace ==
    (xpc = "done" /\ FindMarker(xhtml) # 0) =>
        xspan = (IF MatchingBrace(xhtml, XStart) = 0 THEN NoSpan
                 ELSE [start |-> XStart, end |-> MatchingBrace(xhtml, XStart)])

\* C6 (amended): the extraction ends exactly at the first closing brace
\* outside a string at which the brace depth counted from just after the
\* marker is zero; when no closing brace outside a string precedes the first
\* opening brace, that is the brace matching the first opening brace.
C6_EndsWhenDepthReturnsToZero ==
    (xpc = "done" /\ FindMarker(xhtml) # 0) =>
        /\ xspan = (IF FirstZeroDepthClose(xhtml, XStart) = 0 THEN NoSpan
                    ELSE [start |-> XStart, end |-> FirstZeroDepthClose(xhtml, XStart)])
        /\ ~StrayClose(xhtml, XStart) =>
              xspan.end = MatchingBrace(xhtml, XStart)

\* An object holding a string with an escaped quote followed by a brace has
\* been extracted up to its own closing brace.
C6_Witness ==
    /\ xpc = "done"
    /\ xhtml = <<MK, LB, QT, BS, QT, RB, QT, RB>>
    /\ xspan = [start |-> 2, end |-> 8]


(***************************************************************************)
(* The per-item and the batched orchestration.                             *)
(***************************************************************************)
\* C11 (as stated): given the same answers of provider A, provider B, the
\* verifier and the search, add_trailers.main and MALScraper.scrape_anime
\* leave the entry with the same video id, or both with none.
C11_SameFinalVideoId ==
    eq_pc = "done" => eq_at.id = eq_mal.id


\* Provider A yielded no candidate the verifier can be asked about.
YieldedNone(t) == t = NoTrailer \/ ~Truthy(TrailerVideoId(t))

\* C12 (as stated): provider B's candidate is used only when provider A
\* yielded none: add_trailers asks B only for entries A left without
\* trailer, and _select_embeddable_trailer verifies B's candidate only when
\* A had none; after A's candidate fails verification the next step is the
\* search, never B.
C12_ProviderBOnlyWhenAYieldedNone ==
    /\ pc = "at_jikan" => cur \in missing
    /\ pc = "mal_verify" /\ ck = 2 => YieldedNone(anilist_trailer)


(***************************************************************************)
(* What an entry holds when the run is over.                               *)
(***************************************************************************)
\* The candidate acquired from the providers for the entry of the run: the
\* trailer add_trailers' verify pass found on the entry, and at MALScraper
\* provider A's candidate if it yielded one, else provider B's.
AcquiredCandidate ==
    IF site = AddTrailers THEN trailer
    ELSE IF ~YieldedNone(anilist_trailer) THEN anilist_trailer
    ELSE jikan_trailer

\* The cached verdict of the candidate's video id is false.
WasRejected(t) ==
    /\ ~YieldedNone(t)
    /\ TrailerVideoId(t) \in DOMAIN embed_cache
    /\ ~embed_cache[TrailerVideoId(t)]

\* What the search fallback returned for the entry; null when it was not
\* called or found nothing.
FallbackResult ==
    IF res.ret \in VideoIds THEN BuildYoutubeTrailer(res.ret, "youtube-search")
    ELSE NoTrailer

\* C13 (as stated): when the acquired candidate was rejected, the entry ends
\* the run with the search fallback's candidate if it found one and with a
\* null trailer otherwise.
C13_RejectedReplacedByFallbackOrNull ==
    pc = "done" /\ WasRejected(AcquiredCandidate) =>
        entries[Len(entries)].trailer = FallbackResult

\* The entry does not end the run holding a candidate the verifier rejected.
EndsWithoutRejectedCandidate ==
    pc = "done" =>
        \A i \in 1..Len(entries) : ~WasRejected(entries[i].trailer)


\* scrape_anime returns early for an entry that is not a TV series; such an
\* entry is not counted as processed.
Processed(entry) == entry.scrape_error # "Non-TV type skipped"

\* The trailer's video id has the cached verdict embeddable.
VerifiedEmbeddable(t) ==
    /\ Truthy(TrailerVideoId(t))
    /\ TrailerVideoId(t) \in DOMAIN embed_cache
    /\ embed_cache[TrailerVideoId(t)]

\* C14 (as stated): when the run is over, the trailer of every processed
\* entry is null or a trailer whose video id has the cached verdict
\* embeddable; no entry ends with a trailer that was never verified.
C14_EndsNullOrVerified ==
    pc = "done" =>
        \A i \in 1..Len(entries) :
            Processed(entries[i]) =>
                \/ entries[i].trailer = NoTrailer
                \/ VerifiedEmbeddable(entries[i].trailer)

\* C15 (as stated): a candidate without resolvable video id is discarded:
\* what the normalizers returned for provider A's and provider B's answer is
\* null or has a video id, and no processed entry ends the run holding a
\* trailer whose id is absent.
C15_NoTrailerWithoutVideoId ==
    /\ anilist_trailer # NoTrailer => Truthy(anilist_trailer.id)
    /\ jikan_trailer # NoTrailer => Truthy(jikan_trailer.id)
    /\ pc = "done" =>
          \A i \in 1..Len(entries) :
              Processed(entries[i]) /\ entries[i].trailer # NoTrailer =>
                  Truthy(entries[i].trailer.id)


(***************************************************************************)
(* The retry after a 429 answer.                                           *)
(***************************************************************************)
\* The last call of the verifier sent a second request.
Retried == Fetched /\ lastresp[2] # NoResponse

RetryFailed ==
    Retried /\ (IsException(lastresp[2]) \/ lastresp[2].status >= 400)

\* The requests of a call are at most two, the second one after a 429 answer
\* to the first, and a call makes one fetch at most.
AtMostOneRetryAfter429 ==
    last.op = "verify" =>
        /\ last.fetches <= 1
        /\ Retried => ~IsException(lastresp[1]) /\ lastresp[1].status = 429

\* C16 (as stated): a call sends at most two requests, the second only after
\* a 429 answer to the first; a second 429 or any other failure of the retry
\* is final: the verifier stores false for the id and returns false.
C16_BoundedRetryThenFalse ==
    /\ AtMostOneRetryAfter429
    /\ RetryFailed =>
          /\ last.ret = "false"
          /\ last.vid \in DOMAIN embed_cache
          /\ embed_cache[last.vid] = FALSE


(***************************************************************************)
(* The rate limiter.                                                       *)
(***************************************************************************)
\* C17 (as stated): two consecutive HTTP requests of one class are at least
\* the class's delay apart (the retry after a 429 answer included), and
\* _rate_limit has recorded the new last-call time when it returns.
C17_RequestsSpacedByDelay ==
    /\ rl_last.op = "request" =>
          /\ rl_last.gap >= Delay(rl_last.api)
          /\ rl_last.retried => RetrySleep(rl_last.api) >= Delay(rl_last.api)
    /\ rl_last.op = "limit" => rl_elapsed[rl_last.api] = 0

\* A step of _rate_limit.
RateLimitStep == rl_pc = "call" /\ rl_pc' = "limited"

\* _rate_limit returns once the class's delay has passed since the class's
\* recorded last call, and records the time of its return.
RateLimitWaitsAndRecords ==
    [][RateLimitStep =>
          /\ rl_elapsed[rl_last'.api] + rl_last'.slept >= Delay(rl_last'.api)
          /\ rl_elapsed'[rl_last'.api] = 0]_vars

\* C18: a call of _rate_limit for one class sleeps for a time that depends
\* on that class's timestamp and delay alone, sets that class's timestamp,
\* and leaves the timestamps of the other classes unchanged: their elapsed
\* times grow by the time slept and by nothing else.
C18_ClassesIndependent ==
    [][RateLimitStep =>
          LET api == rl_last'.api
              d   == rl_last'.slept
          IN  /\ d = SleepFor(rl_elapsed[api], Delay(api))
              /\ rl_elapsed'[api] = 0
              /\ \A c \in Classes \ {api} :
                    rl_elapsed'[c] = Min({rl_elapsed[c] + d, Delay(c)})]_vars

\* C18 witness: _rate_limit slept for one class while the delay of another
\* class was running.
C18_Witness ==
    /\ rl_last.op = "limit"
    /\ rl_last.slept > 0
    /\ \E c \in Classes \ {rl_last.api} :
          rl_elapsed[c] > 0 /\ rl_elapsed[c] < Delay(c)


(***************************************************************************)
(* Failures of single entries.                                             *)
(***************************************************************************)
\* C19 (as stated): whatever the upstreams answer, the run is not aborted: no
\* failure raises out of add_trailers.main or MALScraper.scrape_batch before
\* the remaining entries are processed and the final step is reached.
C19_RunNeverAborted ==
    entry_point = "main" => pc # "crashed"


(***************************************************************************)
(* The search cache.                                                       *)
(***************************************************************************)
\* C20 (as stated): in one run the search page of a query is fetched at most
\* once, whatever the number of resolver invocations that search it.
C20_OneFetchPerQuery ==
    \A q \in AllQueries : qfetches[q] <= 1


(***************************************************************************)
(* The candidate list of a query.                                          *)
(***************************************************************************)
\* The ids among the first i matches.
SeenUpTo(m, i) == {m[j] : j \in 1..i}

\* r holds, in this order, the first n distinct ids of m: its k-th element
\* is the id whose first occurrence makes the number of ids seen k.
IsFirstDistinct(r, m, n) ==
    /\ Len(r) = Min({n, Cardinality(SeenUpTo(m, Len(m)))})
    /\ \A k \in 1..Len(r) :
          \E i \in 1..Len(m) :
             /\ m[i] = r[k]
             /\ m[i] \notin SeenUpTo(m, i - 1)
             /\ Cardinality(SeenUpTo(m, i)) = k

NoDuplicates(r) == \A i, j \in 1..Len(r) : i # j => r[i] # r[j]

\* C21: the list returned for a query is exactly the first 12 distinct ids
\* of the page in first-occurrence order, without duplicates and of length
\* at most 12, and so is every list stored in the search cache.
C21_FirstTwelveDistinct ==
    fn_pc = "done" =>
        /\ IsFirstDistinct(fn_out.results, fn_in.matches, 12)
        /\ NoDuplicates(fn_out.results)
        /\ Len(fn_out.results) <= 12
        /\ \A q \in DOMAIN fn_out.scache :
              /\ IsFirstDistinct(fn_out.scache[q], fn_in.matches, 12)
              /\ NoDuplicates(fn_out.scache[q])
              /\ Len(fn_out.scache[q]) <= 12

\* C21 witness: a page with more than 12 distinct ids, repetitions among
\* them and ids not in ascending order, searched by the site that keeps a
\* cache; 12 ids are returned and stored.
C21_Witness ==
    /\ fn_pc = "done"
    /\ Cardinality(SeenUpTo(fn_in.matches, Len(fn_in.matches))) > 12
    /\ Len(fn_in.matches) > Cardinality(SeenUpTo(fn_in.matches, Len(fn_in.matches)))
    /\ Len(fn_out.results) = 12
    /\ \E k \in 1..11 : fn_out.results[k] > fn_out.results[k + 1]
    /\ fn_in.query \in DOMAIN fn_out.scache


(***************************************************************************)
(* The normalizers.                                                        *)
(***************************************************************************)
\* C22 (as stated): a provider normalizer applied to a canonical trailer
\* returns that trailer: same id, url, embedUrl, thumbnail and source.
C22_NormalizationIdempotent ==
    fn_pc = "done" => fn_out = fn_in.c

\* normalize_anilist_trailer returns its own results unchanged.
AnilistIdempotentOnItsOwn ==
    fn_pc = "done" /\ fn_in.by = "anilist"
        /\ fn_in.c \in {NormalizeAnilistTrailer(raw) : raw \in AllRawAnilist}
        => fn_out = fn_in.c


(***************************************************************************)
(* Where a trailer came from.                                              *)
(***************************************************************************)
\* The run is over and entry i, which had no trailer before the run, holds
\* one: the engine wrote it.
WrittenByEngine(i) ==
    /\ pc = "done"
    /\ ~provided[i].prior
    /\ entries[i].trailer # NoTrailer

\* The trailer of entry i has site "youtube" and a source among the two
\* providers and `fallback`; one built by the search fallback is tagged
\* `fallback`, and one tagged with a provider's name is that provider's
\* answer for the entry.
ProvenanceWith(i, fallback) ==
    LET t == entries[i].trailer IN
    /\ t.site = "youtube"
    /\ t.source \in {"anilist", "jikan", fallback}
    /\ t.source = "anilist" => provided[i].a = "data"
    /\ t.source = "jikan" => provided[i].b = "data"
    /\ res.entry = i /\ res.ret \in VideoIds =>
          t = BuildYoutubeTrailer(res.ret, fallback)

ResolutionStarted == entry_point = "main" /\ last.op = "verify"

\* C24 (as stated): a resolution that has started is not abandoned midway:
\* whatever the upstreams answer, the run does not stop between the first
\* call of the verifier for an entry and the entry's terminal state.
C24_ResolutionNotAbandoned ==
    ResolutionStarted => pc # "crashed"

\* The main runs with every enabled step eventually taken: the interpreter
\* runs the next statement.
FairSpec == Spec /\ WF_vars(NextMain)

\* No resolution loops: under FairSpec every run ends, with the final step or
\* with an uncaught exception.
RunEnds == <>(pc \in {"done", "crashed"})


(***************************************************************************)
(* Failures of the search.                                                 *)
(***************************************************************************)
\* The call of the resolver ended with an exception of the search: the last
\* query has no result list.
SearchRaised ==
    pc = "crashed" /\ Len(res.queries) > Len(res.qres)

\* C25 (as stated): a failed search fetch counts as an empty candidate list:
\* no failure of a search raises out of the resolver, and a call all of
\* whose searches gave no candidate returns null.
C25_SearchFailureIsEmptyList ==
    /\ ~SearchRaised
    /\ pc = "returned" /\ (\A k \in 1..Len(res.qres) : res.qres[k] = <<>>) =>
          res.ret = "None"


(***************************************************************************)
(* Provider A's normalizer.                                                *)
(***************************************************************************)
\* A raw trailer of provider A whose site is "youtube" in some spelling and
\* whose id is present.
YoutubeWithId(a) ==
    /\ ~a.isNone
    /\ a.site \in {"youtube", "YouTube", "YOUTUBE"}
    /\ a.id \notin {None, ""}

\* C26: provider A's normalizer yields a trailer exactly for a raw trailer
\* whose site is "youtube" ignoring case and whose id is present; for any
\* other raw trailer it yields null, both orchestrations end as they do for
\* an entry provider A knows no trailer of, and provider B's candidate is
\* the result when it is embeddable.
C26_ProviderAAcceptsOnlyYoutubeWithId ==
    fn_pc = "done" /\ "normalized" \in DOMAIN fn_out =>
        LET a    == fn_in.a
            noA  == [fn_in EXCEPT !.a = AnilistNull]
            jt   == NormalizeJikanTrailer(fn_in.b)
            jtOk == /\ jt # NoTrailer
                    /\ Truthy(TrailerVideoId(jt))
                    /\ fn_in.verdict[TrailerVideoId(jt)]
        IN  /\ fn_out.normalized # NoTrailer <=> YoutubeWithId(a)
            /\ YoutubeWithId(a) =>
                  /\ fn_out.normalized.id = a.id
                  /\ fn_out.normalized.source = "anilist"
            /\ ~YoutubeWithId(a) =>
                  /\ fn_out.at = AddTrailersMain(noA)
                  /\ fn_out.mal = SelectEmbeddableTrailer(noA)
                  /\ jtOk => fn_out.at = jt /\ fn_out.mal = jt

\* Provider A names another site, provider B's trailer is embeddable and is
\* the result of both orchestrations.
C26_Witness ==
    /\ fn_pc = "done" /\ "normalized" \in DOMAIN fn_out
    /\ fn_in.a.site = "dailymotion" /\ Truthy(fn_in.a.id)
    /\ fn_out.normalized = NoTrailer
    /\ fn_out.at # NoTrailer /\ fn_out.at.source = "jikan"
    /\ fn_out.mal = fn_out.at


(***************************************************************************)
(* The sleep before the retry.                                             *)
(***************************************************************************)
\* The run is one of the fetching functions.
RetryRun == "log" \in DOMAIN fn_out

\* The cooldown the claim gives each upstream, in tenths of a second.
Cooldown(api) == IF api = "anilist" THEN 600 ELSE 50

\* C27: a retry follows a first request to the same upstream that was
\* answered 429 and is sent no earlier than the upstream's cooldown after
\* it (60 s for AniList, 5 s for Jikan and YouTube; the former is the
\* longer); no request at all is sent to that upstream between a 429 answer
\* that is retried and the end of its cooldown, and no retry is retried.
C27_RetryAfterCooldown ==
    RetryRun =>
        LET log == fn_out.log
        IN  /\ Cooldown("anilist") > Cooldown("youtube")
            /\ \A k \in 1..Len(log) :
                  log[k].retry =>
                     /\ k > 1
                     /\ ~log[k-1].retry
                     /\ log[k-1].api = log[k].api
                     /\ log[k-1].status = 429
                     /\ log[k].at - log[k-1].at >= Cooldown(log[k].api)
            /\ \A j \in 1..Len(log) :
                  log[j].status = 429 /\ ~log[j].retry /\ log[j].api # "mal" =>
                     \A m \in (j+1)..Len(log) :
                        log[m].api = log[j].api =>
                           log[m].at >= log[j].at + Cooldown(log[j].api)

\* An AniList request and a YouTube request were each retried after a 429
\* answer.
C27_Witness ==
    /\ RetryRun
    /\ \E k, m \in 1..Len(fn_out.log) :
          /\ fn_out.log[k].retry /\ fn_out.log[k].api = "anilist"
          /\ fn_out.log[k].at - fn_out.log[k-1].at = 600
          /\ fn_out.log[m].retry /\ fn_out.log[m].api = "youtube"
          /\ fn_out.log[m].at - fn_out.log[m-1].at = 50


(***************************************************************************)
(* The AniList batches.                                                    *)
(***************************************************************************)
BatchRun == "requested" \in DOMAIN fn_out

\* The AniList ids of the entries that need a trailer.
NeededIds == {fn_in.ids[i] : i \in 1..Len(fn_in.ids)} \ {0}

Elements(batch) == {batch[j] : j \in 1..Len(batch)}

\* C28: the batches requested so far hold between 1 and 50 ids each, their
\* ids are ids of entries that need a trailer, in ascending order within and
\* across the batches (so no id is requested twice), and they are the
\* smallest of the ids; when fetch_anilist_trailers returns, every id has
\* been requested, and the map holds exactly the media of the answers.
C28_BatchesPartitionTheIds ==
    BatchRun =>
        LET req == fn_out.requested
            asked == UNION {Elements(req[k]) : k \in 1..Len(req)}
        IN  /\ \A k \in 1..Len(req) :
                  /\ Len(req[k]) >= 1
                  /\ Len(req[k]) <= 50
                  /\ \A j \in 1..(Len(req[k]) - 1) : req[k][j] < req[k][j + 1]
                  /\ k > 1 => req[k - 1][Len(req[k - 1])] < req[k][1]
            /\ asked \subseteq NeededIds
            /\ \A x \in NeededIds, y \in asked : x < y => x \in asked
            /\ fn_pc = "done" =>
                  /\ asked = NeededIds
                  /\ DOMAIN fn_out.results =
                        UNION {Media(req[k], fn_out.answers[k]) : k \in 1..Len(req)}
                  /\ \A x \in DOMAIN fn_out.results : fn_out.results[x] = TrailerOf(x)

\* Three batches were requested for more than 100 ids given out of order
\* and with a repetition, the last one with fewer than 50 ids, and the
\* function has returned.
C28_Witness ==
    /\ BatchRun
    /\ fn_pc = "done"
    /\ Len(fn_in.ids) > Cardinality(NeededIds)
    /\ Len(fn_out.requested) = 3
    /\ Len(fn_out.requested[1]) = 50
    /\ Len(fn_out.requested[3]) < 50
    /\ fn_out.answers = <<"all", "even", "all">>


(***************************************************************************)
(* The work of one call of the search fallback.                            *)
(***************************************************************************)
WorkRun == "verdicts" \in DOMAIN fn_out

\* C29: one call of the search fallback calls the search at most 3 times
\* and the verifier at most 36 times, and makes no call of the verifier
\* after the one that accepted a candidate (or raised); the HTTP requests
\* it sends are at most two per call, 78 in all, whatever is answered.
C29_BoundedWorkPerRepair ==
    WorkRun =>
        LET v == fn_out.verdicts
        IN  /\ fn_out.searches <= 3
            /\ Len(v) <= 36
            /\ fn_out.requests <= 2 * fn_out.searches + 2 * Len(v)
            /\ fn_out.requests <= 78
            /\ \A k \in 1..(Len(v) - 1) : v[k] = "false"
            /\ fn_out.found # 0 =>
                  /\ fn_pc = "done"
                  /\ Len(v) >= 1 /\ v[Len(v)] = "true"

\* The verifier was called 36 times, 12 times for each of three searches,
\* and the call returned null.
C29_Witness ==
    /\ WorkRun
    /\ fn_pc = "done"
    /\ fn_out.searches = 3
    /\ Len(fn_out.verdicts) = 36
    /\ fn_out.found = 0

\* A call that accepted a candidate of the second search after rejecting
\* those of the first.
C29_StopsAtFirstAccepted ==
    /\ WorkRun
    /\ fn_pc = "done"
    /\ fn_out.found # 0
    /\ fn_out.searches = 2
    /\ Len(fn_out.verdicts) > 12


(***************************************************************************)
(* What the search cache of MALScraper records.                            *)
(***************************************************************************)
\* A call of _search_youtube_video_ids.
MalSearchStep == site = MalScraper /\ entry_point = "search" /\ pc = "call"

\* C30: a call of MALScraper's search sends a request exactly when the
\* query is not in the search cache; when the fetch fails (exception, error
\* status, 429 twice) the cache is left as it was, so the query is still
\* not in it; when it succeeds the returned list is stored under the query
\* and every other entry of the cache is unchanged.
C30_CacheRecordsOnlySuccesses ==
    [][MalSearchStep =>
          LET q       == res'.queries[1]
              fetched == lastresp'[1] # NoResponse
              final   == IF lastresp'[2] # NoResponse THEN lastresp'[2]
                         ELSE lastresp'[1]
              ok      == fetched /\ ~IsException(final) /\ ResponseOk(final)
          IN  /\ fetched <=> q \notin DOMAIN search_cache
              /\ ~ok => search_cache' = search_cache
              /\ ok =>
                    /\ DOMAIN search_cache' = DOMAIN search_cache \cup {q}
                    /\ search_cache'[q] = res'.qres[1]
                    /\ \A p \in DOMAIN search_cache :
                          search_cache'[p] = search_cache[p]]_vars

\* A query was fetched twice, the first fetch having failed, and is now in
\* the cache beside another query; the last call was a failed fetch of a
\* third query, which is not in the cache.
C30_Witness ==
    /\ site = MalScraper /\ entry_point = "search"
    /\ \E q \in DOMAIN search_cache :
          /\ qfetches[q] = 2
          /\ DOMAIN search_cache \ {q} # {}
    /\ res.queries # <<>>
    /\ res.queries[1] \notin DOMAIN search_cache
    /\ lastresp[1] # NoResponse


(***************************************************************************)
(* What the passes of add_trailers leave alone.                            *)
(***************************************************************************)
PassesRun == "still_blocked" \in DOMAIN fn_out /\ fn_pc # "ready"

\* The acquisition passes are running or have just ended.
Acquiring == fn_pc \in {"anilist", "jikan"}

\* Without --refresh the acquisition passes change no entry that has a
\* trailer and no entry outside `needs`, and what they change is an entry
\* of `needs` that now holds a provider's trailer.
AcquisitionFrame ==
    PassesRun /\ Acquiring =>
        \A i \in 1..Len(fn_out.es) :
           /\ ~fn_in.refresh /\ HasTrailer(fn_in.data[i]) => fn_out.es[i] = fn_in.data[i]
           /\ fn_out.es[i] # fn_in.data[i] =>
                 /\ i \in fn_out.needs
                 /\ fn_out.es[i].trailer.source \in {"anilist", "jikan"}
                 /\ [fn_out.es[i] EXCEPT !.trailer = fn_in.data[i].trailer] = fn_in.data[i]

\* With --limit n no pass changes an entry after the first n.
LimitFrame(limits) ==
    PassesRun /\ fn_in.limit.given /\ fn_in.limit.n \in limits =>
        \A i \in 1..Len(fn_out.es) : i > fn_in.limit.n => fn_out.es[i] = fn_in.data[i]

\* C31 (as stated): without --refresh the acquisition passes change only
\* entries of `needs`, never an entry that has a trailer, and an entry no
\* provider has a trailer for is unchanged; with --limit n, for any n, no
\* pass changes an entry after the first n.
C31_PassesLeaveOtherEntriesAlone ==
    AcquisitionFrame /\ LimitFrame(0..MaxEntries)

\* The same for the limits from 1 on.
FrameWithPositiveLimit ==
    AcquisitionFrame /\ LimitFrame(1..MaxEntries)

\* With --limit 1 the second entry, which has no trailer, is unchanged at
\* the end of a run that gave the first one a trailer.
LimitedRunEnds ==
    /\ PassesRun /\ fn_pc = "done"
    /\ fn_in.limit.given /\ fn_in.limit.n = 1
    /\ ~HasTrailer(fn_in.data[2]) /\ fn_in.data[2].anilistId # 0
    /\ fn_out.es[1] # fn_in.data[1]


(***************************************************************************)
(* The counters of the verify pass.                                        *)
(***************************************************************************)
\* The verify pass has begun.
Verifying == PassesRun /\ fn_out.acquired # <<>>

\* The entries the verify loop is through with.
Handled == 1..(fn_out.v - 1)

\* The entries among them whose acquired trailer has a video id the
\* verifier rejected: embed_cache holds False for it.
RejectedByVerifier ==
    {i \in Handled :
        /\ Verifiable(fn_out.acquired[i])
        /\ ~fn_out.ecache[TrailerVideoId(fn_out.acquired[i].trailer)]}

WithOutcome(o) == {i \in 1..Len(fn_out.es) : fn_out.outcome[i] = o}

\* C32: in the verify pass of add_trailers every entry handled that has a
\* trailer with a video id is kept (the verifier accepted it and the trailer
\* is the acquired one), replaced (its trailer is a search result) or
\* removed (its trailer is null); `replaced` and `removed` count the
\* replaced and the removed entries, their sum is the number of entries
\* whose trailer the verifier rejected, still_blocked has one title per
\* removed entry, and when the pass ends every entry of the list has been
\* handled.
C32_VerifyOutcomesAndCounters ==
    Verifying =>
        /\ \A i \in Handled :
              LET was == fn_out.acquired[i]
                  now == fn_out.es[i]
                  o   == fn_out.outcome[i]
              IN  /\ Verifiable(was) <=> o \in {"kept", "replaced", "removed"}
                  /\ ~Verifiable(was) => o = "skipped" /\ now = was
                  /\ o = "kept" =>
                        /\ fn_out.ecache[TrailerVideoId(was.trailer)]
                        /\ now.trailer = [was.trailer EXCEPT !.id = TrailerVideoId(was.trailer)]
                  /\ o = "replaced" => now.trailer.source = "youtube-search"
                  /\ o = "removed" => now.trailer = NoTrailer
        /\ \A i \in 1..Len(fn_out.es) : i \notin Handled => fn_out.outcome[i] = "none"
        /\ fn_out.replaced = Cardinality(WithOutcome("replaced"))
        /\ fn_out.removed = Cardinality(WithOutcome("removed"))
        /\ fn_out.replaced + fn_out.removed = Cardinality(RejectedByVerifier)
        /\ fn_out.removed = Len(fn_out.still_blocked)
        /\ fn_pc = "done" => Handled = 1..fn_out.n

\* A run that ended with one entry replaced and one removed.
C32_Witness ==
    /\ Verifying
    /\ fn_pc = "done"
    /\ fn_out.replaced = 1
    /\ fn_out.removed = 1
    /\ fn_out.outcome = <<"replaced", "removed">>
    /\ fn_out.still_blocked = <<"Unknown title">>


(***************************************************************************)
(* The pause between the Jikan requests of add_trailers.                   *)
(***************************************************************************)
\* The Jikan requests k-1 and k are for different entries.
NextEntryRequest(k) ==
    k \in 2..Len(fn_out.jlog) /\ fn_out.jlog[k].entry # fn_out.jlog[k - 1].entry

Gap(k) == fn_out.jlog[k].at - fn_out.jlog[k - 1].at

\* C33 (as stated): two consecutive Jikan requests for different entries
\* are at least JIKAN_DELAY apart, also when the fetch for the former entry
\* raised.
C33_JikanRequestsSpaced ==
    PassesRun =>
        \A k \in 1..Len(fn_out.jlog) :
           NextEntryRequest(k) => Gap(k) >= ADD_TRAILERS_JIKAN_DELAY

\* The same when the fetch for the former entry returned.
SpacedAfterAnswer ==
    PassesRun =>
        \A k \in 1..Len(fn_out.jlog) :
           NextEntryRequest(k) /\ ~fn_out.jlog[k - 1].raised =>
              Gap(k) >= ADD_TRAILERS_JIKAN_DELAY

\* Two entries were asked of Jikan, the first without error.
AskedTwoEntries ==
    /\ PassesRun
    /\ \E k \in 1..Len(fn_out.jlog) :
          NextEntryRequest(k) /\ ~fn_out.jlog[k - 1].raised

(***************************************************************************)
(* C34: an entry of a type other than TV.                                  *)
(***************************************************************************)
ScrapeRun == "scrape_errors" \in DOMAIN fn_out

\* The run has returned a result whose metadata has a type other than TV.
ReturnedNonTV ==
    /\ ScrapeRun
    /\ fn_pc \in {"returned", "formatted"}
    /\ ~fn_out.metadata.isNone
    /\ fn_out.metadata.type \notin {None, "", "TV"}

\* C34: an entry whose metadata type is present and not "TV" is returned
\* right after the Jikan metadata fetch: the only call made for it is that
\* fetch (no AniList request, no verifier call, no search, no MAL page),
\* "Non-TV type skipped" is recorded in scrape_errors, its episodes stay
\* empty, and format_for_database gives None for it.
C34_NonTVReturnedAtOnce ==
    ReturnedNonTV =>
        /\ fn_out.calls = <<"jikan">>
        /\ fn_out.scrape_errors = <<"Non-TV type skipped">>
        /\ fn_out.episodes = <<>>
        /\ fn_pc = "formatted" => fn_out.formatted = NoEntry

C34_Witness == ReturnedNonTV /\ fn_pc = "formatted" /\ fn_out.metadata.type = "Movie"

====
